---- MODULE Spec2Model ----
(***************************************************************************)
(* Model of the AI-guided navigation loop of app/core/browser.py           *)
(* (BrowserAutomation) and of the model-output decoding of app/core/llm.py *)
(* (AINavigator).  Collaborators (the Playwright page, the inference       *)
(* endpoint) are nondeterministic: every call returns one of the outcomes  *)
(* the real collaborator can produce.                                      *)
(***************************************************************************)
EXTENDS Integers, Sequences, FiniteSets, TLC

VARIABLES
    page,               \* self.page: "None" | "open" | "closed"
    ai_navigator,       \* self.ai_navigator: "None" | "uninit" | "ready"
    pc,                 \* position of the caller-level control flow
    target_state,       \* argument of navigate_with_ai
    current_attempt,    \* navigate_with_ai local
    page_content,       \* navigate_with_ai local: last snapshot
    state_verification, \* navigate_with_ai local: verification at the top of the loop
    current_state,      \* navigate_with_ai local: verification after an action
    nav_plan,           \* navigate_with_ai local: current plan
    idx,                \* position of the for loop over the plan's actions
    result,             \* value returned by the finished call
    raised,             \* TRUE when the finished call raised instead of returning
    caught,             \* TRUE when the result was built by the call's except clause
    epc,                \* position inside execute_action
    action,             \* execute_action argument
    retry_count,        \* execute_action local
    eresult,            \* value returned by execute_action
    plan_requests,      \* history: get_navigation_plan calls of this invocation
    first_verify,       \* history: what the first verify_state call of this invocation reported
    exec_calls,         \* history: execute_action calls of this invocation
    executed,           \* history: per action of the current plan, what happened
    snap_fresh,         \* history: no action ran since page_content was captured
    reached,            \* history: a verification of this invocation reported success
    last_verify_at,     \* history: the local that holds the latest verify_state value
    vis_waits,          \* history: visibility waits of this execute_action call
    vis_timeouts,       \* history: visibility waits that timed out
    dispatched,         \* history: primitives of the action performed in this call
    form_methods,       \* the navigator object offers get_form_fill_plan and verify_form_completion
    application_data,   \* argument of submit_application_form / _fill_application_form
    new_page,           \* page argument of _fill_application_form: "None" | "open" | "closed"
    form_plan,          \* submit_application_form / _fill_application_form local
    stage_log,          \* history: the calls this form call made, with their outcome
    task,               \* the AINavigator method called on its own: "none" | "verify_state" | "get_navigation_plan"
    response,           \* what the inference call of that method did
    inference_calls,    \* history: inference calls of that method call
    load_outcomes,      \* what the three waits of wait_for_page_load do in a call made on its own
    extract_outcomes,   \* what the extractions of get_page_content do in a call made on its own
    load_result,        \* how that wait_for_page_load ran
    content,            \* what that get_page_content gave
    clock,              \* datetime.now(), in seconds
    rpc,                \* per batch request: position in process_job_applications
    rid,                \* per batch request: its process_id
    active_applications,\* job_processor.active_applications: process_id -> tracking record
    relevant_jobs,      \* per batch request: process_job_applications local
    tpc,                \* per job task: position in _process_single_application
    tpage,              \* per job task: its local new_page
    tresult,            \* per job task: how the task ended
    open_pages,         \* the pages of the browser that are open, the default page aside
    page_ops            \* history: which control flow acted on which page

vars == <<page, ai_navigator, pc, target_state, current_attempt, page_content,
          state_verification, current_state, nav_plan, idx, result, raised,
          caught, epc,
          action, retry_count, eresult, plan_requests, first_verify, exec_calls,
          executed, snap_fresh, reached, last_verify_at, vis_waits,
          vis_timeouts, dispatched, form_methods, application_data, new_page,
          form_plan, stage_log, task, response, inference_calls,
          load_outcomes, extract_outcomes, load_result, content,
          clock, rpc, rid, active_applications, relevant_jobs, tpc, tpage,
          tresult, open_pages, page_ops>>

objVars  == <<page, ai_navigator>>
outVars  == <<result, raised, caught>>
navVars  == <<target_state, current_attempt, page_content, state_verification,
              current_state, nav_plan, idx>>
navHist  == <<plan_requests, first_verify, exec_calls, executed, snap_fresh, reached,
              last_verify_at>>
execVars == <<epc, action, retry_count, eresult>>
execHist == <<vis_waits, vis_timeouts, dispatched>>
formVars == <<application_data, new_page, form_plan, stage_log>>
pageCallVars == <<load_outcomes, extract_outcomes, load_result, content>>
batchVars == <<clock, rpc, rid, active_applications, relevant_jobs, tpc, tpage,
               tresult, open_pages, page_ops>>
codecVars == <<task, response, inference_calls, pageCallVars, batchVars>>

(***************************************************************************)
(* Bounds and program constants                                            *)
(***************************************************************************)
MaxPlanLen == 3

max_attempts == 5

max_retries == 3

\* the clock runs from second 0 to this second
MaxSecond == 1

(***************************************************************************)
(* Values.  A decoded JSON value is a record of one shape; a key that the  *)
(* object does not carry is Absent (strings) or NoNum (numbers).           *)
(***************************************************************************)
Absent == "<absent>"
NoNum == 0 - 1

Value(t, success, confidence, missing, status, message, actions_t, actions) ==
    [t |-> t, success |-> success, confidence |-> confidence,
     missing_requirements |-> missing, status |-> status, message |-> message,
     actions_t |-> actions_t, actions |-> actions]

NoValue == Value("none", Absent, NoNum, <<>>, Absent, Absent, "absent", <<>>)

\* a JSON value that is not an object: array, string, number, null
NonObject(t) == Value(t, Absent, NoNum, <<>>, Absent, Absent, "absent", <<>>)

Verification(success, confidence, missing) ==
    Value("obj", success, confidence, missing, Absent, Absent, "absent", <<>>)

Plan(status, message, actions_t, actions) ==
    Value("obj", Absent, NoNum, <<>>, status, message, actions_t, actions)

\* an action dict; t = "str" is a plan entry that is not a dict.  value_t is
\* the JSON type of the value ("absent" when the key is missing); a string
\* value is the sequence of its characters
Action(t, type, selector, value_t, value) ==
    [t |-> t, type |-> type, selector |-> selector, value_t |-> value_t,
     value |-> value]

NoAction == Action("none", Absent, Absent, "absent", <<>>)

\* a form-fill plan: a plan that also carries a submit selector
FormPlan(plan, submit_selector) == [plan |-> plan, submit_selector |-> submit_selector]

NoFormPlan == FormPlan(NoValue, Absent)

ClickApply == Action("obj", "click", "#apply", "absent", <<>>)
FillSearch == Action("obj", "fill", "input[type=search]", "str", <<"d", "e", "v">>)

SelectCity == Action("obj", "select", "#city", "str", <<"x">>)

\* the plans the model proposes: fill the search box, click, choose an
\* option, fill again, ..., cut after at most MaxPlanLen actions
PlanAction(i) == CASE i % 3 = 1 -> FillSearch [] i % 3 = 2 -> ClickApply [] OTHER -> SelectCity

PlanActions == {PlanAction(i) : i \in 1..MaxPlanLen}

ActionLists == {[i \in 1..n |-> PlanAction(i)] : n \in 0..MaxPlanLen}

(***************************************************************************)
(* Model output and its decoding (llm.py)                                  *)
(***************************************************************************)
\* bodies the model can answer a verification prompt with
VTrue9      == Verification("true", 9, <<>>)
VTrueNoConf == Verification("true", NoNum, <<>>)
VFalse2     == Verification("false", 2, <<"search box">>)
VNoSuccess  == Verification(Absent, 5, <<>>)
Malformed   == NonObject("malformed")

VerifyBodies == {VTrue9, VTrueNoConf, VFalse2, VNoSuccess, NonObject("arr"), Malformed}

\* bodies the model can answer a plan prompt with
ModelErrorPlan == Plan("error", "no route to target", "list", <<ClickApply>>)
NoStatusPlan   == Plan(Absent, Absent, "list", <<ClickApply>>)
NoActionsPlan  == Plan("success", Absent, "absent", <<>>)
NullActionsPlan == Plan("success", Absent, "null", <<>>)
ErrorPlanNoMessage == Plan("error", Absent, "list", <<>>)

PlanBodies ==
    {Plan("success", Absent, "list", al) : al \in ActionLists}
        \cup {ModelErrorPlan, ErrorPlanNoMessage, NoStatusPlan, NoActionsPlan,
              NullActionsPlan, NonObject("arr"), Malformed}

\* the text around the body: nothing, white space, or prose
Wraps == {"none", "ws", "prose"}

Response(wrap, body) == [wrap |-> wrap, body |-> body]

\* what one inference call does: it raises, or it returns a response text
LLMOutcomes(bodies) ==
    {[raised |-> TRUE, response |-> Response("none", Malformed)]}
        \cup {[raised |-> FALSE, response |-> Response(w, b)] : w \in Wraps, b \in bodies}

NoResponse == [raised |-> FALSE, response |-> Response("none", NoValue)]

DecodeError == NonObject("decode_error")

\* bodies that are no JSON text: the empty string, a JSON text cut short
EmptyText == NonObject("empty")
Truncated == NonObject("truncated")

NotJson == {"malformed", "empty", "truncated"}

\* response.strip(): white space around the text is removed, prose is not
strip(r) == IF r.wrap = "ws" THEN Response("none", r.body) ELSE r

\* faulty variant: the text between the first and the last brace is decoded
json_loads_braces(r) ==
    IF r.body.t \in NotJson \/ (r.wrap # "none" /\ r.body.t # "obj")
    THEN DecodeError ELSE r.body

\* json.loads(text): the whole text must be one JSON value
json_loads(r) ==
    IF r.wrap # "none" \/ r.body.t \in NotJson THEN DecodeError ELSE r.body

ParsingErrorVerification == Verification("false", 0, <<"parsing_error">>)
RaisedVerification == Verification("false", 0, <<"str(e)">>)

\* AINavigator.verify_state: the decoded value is returned as it is
verify_state(ai, out) ==
    IF ai # "ready" \/ out.raised THEN RaisedVerification
    ELSE LET verification == json_loads(strip(out.response))
         IN  IF verification = DecodeError THEN ParsingErrorVerification
             ELSE verification

InvalidPlan == Plan("error", "Invalid plan format", "list", <<>>)
RaisedPlan == Plan("error", "str(e)", "list", <<>>)

\* AINavigator.get_navigation_plan
get_navigation_plan(ai, out) ==
    IF ai # "ready" \/ out.raised THEN RaisedPlan
    ELSE LET plan == json_loads(strip(out.response))
         IN  IF plan = DecodeError THEN InvalidPlan ELSE plan

(***************************************************************************)
(* Python dictionary access on a decoded value                             *)
(***************************************************************************)
IsDict(v) == v.t = "obj"

\* d.get('success', False), taken as a condition
GetSuccess(v) == v.success = "true"

\* d.get('confidence', 0)
GetConfidence(v) == IF v.confidence = NoNum THEN 0 ELSE v.confidence

\* d.get("actions", [])
GetActions(v) == IF v.actions_t = "list" THEN v.actions ELSE <<>>

Result(status, message, confidence) ==
    Value("obj", Absent, confidence, <<>>, status, message, "absent", <<>>)

ReachedMessage(target) == "Reached target state: " \o target

\* faulty variant: the message does not name the ceiling
AttemptsMessage_no_ceiling == "Failed to reach target state"

\* f"Failed to reach target state after {max_attempts} attempts"
AttemptsMessage == "Failed to reach target state after " \o ToString(max_attempts) \o " attempts"

\* the result of the except clause: {"status": "error", "message": str(e)}
ErrorResult(e) == Result("error", e, NoNum)

NoGetAttr    == "object has no attribute 'get'"
NotSubscript == "indices must be integers"
KeyErrorStatus == "'status'"
NotIterable  == "'NoneType' object is not iterable"
NoPageAttr   == "'NoneType' object has no attribute 'url'"
NoToken      == "HUGGINGFACEHUB_API_TOKEN environment variable not set"
PageLoadError == "Error waiting for page load"

(***************************************************************************)
(* The page (browser.py)                                                   *)
(***************************************************************************)
\* what a page primitive can do on the current page handle
PrimOutcomes(pg) == IF pg = "open" THEN {"ok", "timeout", "error"} ELSE {"error"}

Stages == <<"networkidle", "domcontentloaded", "ready_predicate">>

LoadOutcomes(pg) == [1..3 -> PrimOutcomes(pg)]

FirstBad(outs) ==
    IF \A i \in 1..3 : outs[i] = "ok" THEN 0
    ELSE CHOOSE i \in 1..3 : outs[i] # "ok" /\ \A j \in 1..(i - 1) : outs[j] = "ok"

NoLoad == [raised |-> FALSE, stages |-> <<>>, slept |-> FALSE]

\* faulty variant: a timeout is raised like any other error
wait_for_page_load_fatal(outs) ==
    LET k == FirstBad(outs)
    IN  IF k = 0
        THEN [raised |-> FALSE, stages |-> Stages, slept |-> TRUE]
        ELSE [raised |-> TRUE, stages |-> SubSeq(Stages, 1, k), slept |-> FALSE]

\* BrowserAutomation.wait_for_page_load: the stages run in order, a timeout
\* ends the wait normally, any other error is raised again
wait_for_page_load(outs) ==
    LET k == FirstBad(outs)
    IN  IF k = 0
        THEN [raised |-> FALSE, stages |-> Stages, slept |-> TRUE]
        ELSE [raised |-> outs[k] # "timeout",
              stages |-> SubSeq(Stages, 1, k), slept |-> FALSE]

PageUrl == "https://careers.example/jobs"
PageTitle == "Careers"
PageText == "Open positions"
PageHtml == "<html>"
PageElements == <<"input", "button">>

Snapshot(url, title, text, html, elements) ==
    [url |-> url, title |-> title, text |-> text, html |-> html, elements |-> elements]

NoSnapshot == Snapshot(Absent, Absent, Absent, Absent, <<>>)

Extractions == {"title", "text", "html", "elements"}

ExtractOutcomes(pg) == [Extractions -> PrimOutcomes(pg)]

\* the ways one wait_for_page_load call can end on this page handle
LoadResults(pg) == {wait_for_page_load(load) : load \in LoadOutcomes(pg)}

NoContent == [raised |-> FALSE, error |-> Absent, content |-> NoSnapshot]

\* faulty variant: one failed extraction empties the whole snapshot
get_page_content_all_or_nothing(pg, load, outs) ==
    IF pg = "None"
    THEN [raised |-> TRUE, error |-> NoPageAttr, content |-> NoSnapshot]
    ELSE IF wait_for_page_load(load).raised \/ \E x \in Extractions : outs[x] # "ok"
    THEN [raised |-> FALSE, error |-> Absent,
          content |-> Snapshot(PageUrl, "", "", "", <<>>)]
    ELSE [raised |-> FALSE, error |-> Absent,
          content |-> Snapshot(PageUrl, PageTitle, PageText, PageHtml, PageElements)]

\* faulty variant: the page is read whatever the wait for the page did
get_page_content_no_wait(pg, load, outs) ==
    IF pg = "None"
    THEN [raised |-> TRUE, error |-> NoPageAttr, content |-> NoSnapshot]
    ELSE [raised |-> FALSE, error |-> Absent,
          content |-> Snapshot(PageUrl, PageTitle, PageText, PageHtml, PageElements)]

\* BrowserAutomation.get_page_content
get_page_content(pg, load, outs) ==
    IF wait_for_page_load(load).raised \/ pg = "None" \/ outs["title"] # "ok"
    THEN IF pg = "None"
         THEN [raised |-> TRUE, error |-> NoPageAttr, content |-> NoSnapshot]
         ELSE [raised |-> FALSE, error |-> Absent,
               content |-> Snapshot(PageUrl, "", "", "", <<>>)]
    ELSE [raised |-> FALSE, error |-> Absent,
          content |-> Snapshot(PageUrl, PageTitle,
                               IF outs["text"] = "ok" THEN PageText ELSE "",
                               IF outs["html"] = "ok" THEN PageHtml ELSE "",
                               IF outs["elements"] = "ok" THEN PageElements ELSE <<>>)]

\* the ways one get_page_content call can end on this page handle
SnapshotResults(pg) ==
    {get_page_content(pg, load, outs) :
        load \in LoadOutcomes(pg), outs \in ExtractOutcomes(pg)}

\* the values one verify_state / get_navigation_plan call can return
VerifyResults(ai) == {verify_state(ai, out) : out \in LLMOutcomes(VerifyBodies)}

PlanResults(ai) == {get_navigation_plan(ai, out) : out \in LLMOutcomes(PlanBodies)}

(***************************************************************************)
(* execute_action: the primitives an action is dispatched to               *)
(***************************************************************************)
\* if selector:
HasSelector(a) == a.t = "obj" /\ a.selector # Absent /\ a.selector # ""

AsciiDigits == {"0", "1", "2", "3", "4", "5", "6", "7", "8", "9"}

\* characters str.isdigit() accepts: the ASCII digits and others, such as a
\* superscript two, that int() rejects
DigitChars == AsciiDigits \cup {"^2"}

DigitValue(c) ==
    CASE c = "0" -> 0 [] c = "1" -> 1 [] c = "2" -> 2 [] c = "3" -> 3 [] c = "4" -> 4
      [] c = "5" -> 5 [] c = "6" -> 6 [] c = "7" -> 7 [] c = "8" -> 8 [] c = "9" -> 9
      [] OTHER -> 0

\* value.isdigit()
isdigit(s) == Len(s) > 0 /\ \A i \in 1..Len(s) : s[i] \in DigitChars

RECURSIVE int(_)
\* int(value) of a string of ASCII digits
int(s) == IF s = <<>> THEN 0
          ELSE 10 * int(SubSeq(s, 1, Len(s) - 1)) + DigitValue(s[Len(s)])

\* seconds slept by the wait kind: int(value) if value.isdigit() else 1
WaitSeconds(a) == IF isdigit(a.value) THEN int(a.value) ELSE 1

\* the wait kind raises before it sleeps: value has no isdigit (null, number),
\* or int() rejects a character isdigit accepted
WaitRaises(a) ==
    \/ a.value_t \in {"null", "num"}
    \/ isdigit(a.value) /\ \E i \in 1..Len(a.value) : a.value[i] \notin AsciiDigits

\* the calls the if/elif chain makes for the action's type, in order
DispatchPrims(a) ==
    CASE a.type = "click"    -> <<"wait_for_selector", "evaluate", "pause", "click">>
      [] a.type = "fill"     -> <<"fill", "press">>
      [] a.type = "wait"     -> <<"sleep">>
      [] a.type = "navigate" -> <<"goto", "wait_for_page_load">>
      [] a.type = "select"   -> <<"select_option">>
      [] OTHER               -> <<>>

\* the calls that perform the action (the kinds click, fill, wait,
\* navigate, select)
MainPrims == {"click", "fill", "press", "sleep", "goto", "select_option"}

SelectorPrims == {"wait_for_selector", "evaluate", "click", "fill", "press",
                  "select_option"}

\* the call cannot succeed whatever the page does: no selector, no URL
MustFail(prim, a) ==
    \/ prim \in SelectorPrims /\ ~HasSelector(a)
    \/ prim = "goto" /\ (a.value_t # "str" \/ a.value = <<>>)
    \/ prim = "fill" /\ a.value_t \in {"null", "num"}
    \/ prim = "sleep" /\ WaitRaises(a)

CanSucceed(prim, pg, a) ==
    /\ ~MustFail(prim, a)
    /\ prim \in {"pause", "sleep"} \/ pg = "open"

FailKinds(prim, pg, a) ==
    IF MustFail(prim, a) THEN {"error"}
    ELSE IF prim \in {"pause", "sleep"} THEN {}
    ELSE IF pg # "open" \/ prim = "wait_for_page_load" THEN {"error"}
    ELSE {"timeout", "error"}

\* the ways one dispatch can go: done calls completed, then no exception, a
\* PlaywrightTimeout or another exception
DispatchRuns(a, pg) ==
    LET prims == DispatchPrims(a)
        n == Len(prims)
    IN  {r \in [done : 0..n, exc : {"none", "timeout", "error"}] :
            /\ \A j \in 1..r.done : CanSucceed(prims[j], pg, a)
            /\ IF r.exc = "none" THEN r.done = n
               ELSE r.done < n /\ r.exc \in FailKinds(prims[r.done + 1], pg, a)}

IsMain(prim) == prim \in MainPrims

\* asyncio.sleep(seconds) as it shows in the history of a call
SleepCall(seconds) == "sleep(" \o seconds \o ")"

\* the exception a failed call raised, as it shows in the history
Raised(exc) == IF exc = "timeout" THEN <<"PlaywrightTimeout">>
               ELSE IF exc = "error" THEN <<"Exception">> ELSE <<>>

PerformedCall(a, prim) ==
    IF prim = "sleep" THEN SleepCall(ToString(WaitSeconds(a))) ELSE prim

\* the history of one dispatch: the performing calls that completed, with
\* the seconds the wait kind slept, then the exception that ended it
Performed(a, run) ==
    LET done == SelectSeq(SubSeq(DispatchPrims(a), 1, run.done), IsMain)
    IN  [j \in 1..Len(done) |-> PerformedCall(a, done[j])] \o Raised(run.exc)

WaitTwo     == Action("obj", "wait", Absent, "str", <<"2">>)
WaitDefault == Action("obj", "wait", Absent, "absent", <<>>)
WaitText    == Action("obj", "wait", Absent, "str", <<"a">>)
WaitNull    == Action("obj", "wait", Absent, "null", <<>>)
WaitNumber  == Action("obj", "wait", Absent, "num", <<>>)
WaitSuper   == Action("obj", "wait", Absent, "str", <<"^2">>)
GotoJobs    == Action("obj", "navigate", Absent, "str", <<"u">>)
HoverMenu   == Action("obj", "hover", "#menu", "absent", <<>>)
NoKind      == Action("obj", Absent, Absent, "absent", <<>>)
ClickNoSelector == Action("obj", "click", Absent, "absent", <<>>)
NotADict    == Action("str", Absent, Absent, "absent", <<>>)

ExecActions == {FillSearch, ClickApply, SelectCity} \cup
    {WaitTwo, WaitDefault, WaitText, WaitNull, WaitNumber, WaitSuper, GotoJobs,
     HoverMenu, NoKind, ClickNoSelector, NotADict}

Targets == {"job search page"}

(***************************************************************************)
(* Batches (main.py, job_processor.py): values                             *)
(***************************************************************************)
\* the batch requests handled at the same time, and the postings a search
\* can find relevant
Requests == {"r1", "r2"}
Jobs == {"j1", "j2"}

\* one task per relevant job of a request
Tasks == Requests \X Jobs

\* the control flow of a request itself, as opposed to its job tasks
MainFlow(r) == <<r, "main">>

\* self.browser.page, the page init_browser made
DefaultPage == 0

\* the page object a new_page() call makes is a new one: it is numbered
\* after the task that made the call
NewPage(t) ==
    1 + 2 * (IF t[1] = "r1" THEN 0 ELSE 1) + (IF t[2] = "j1" THEN 0 ELSE 1)

\* process ids: f"batch_{datetime.now().strftime('%Y%m%d_%H%M%S')}"
ProcessIds == 0..MaxSecond

TrackingRecord(status, ended, jobs_found, submitted, failed) ==
    [status |-> status, ended |-> ended, jobs_found |-> jobs_found,
     applications_submitted |-> submitted, applications_failed |-> failed]

NoRecord == TrackingRecord(Absent, FALSE, 0, 0, 0)

\* the record process_job_applications starts with
Initiated == TrackingRecord("initiated", FALSE, 0, 0, 0)

\* no batch was requested yet
NoBatch ==
    /\ clock = 0
    /\ rpc = [r \in Requests |-> "r_idle"]
    /\ rid = [r \in Requests |-> NoNum]
    /\ active_applications = [p \in ProcessIds |-> NoRecord]
    /\ relevant_jobs = [r \in Requests |-> {}]
    /\ tpc = [t \in Tasks |-> "t_none"]
    /\ tpage = [t \in Tasks |-> NoNum]
    /\ tresult = [t \in Tasks |-> "none"]
    /\ open_pages = {}
    /\ page_ops = {}

(***************************************************************************)
(* Initial state: the object after __init__, no call in progress           *)
(***************************************************************************)
NoCall ==
    /\ page = "None"
    /\ ai_navigator = "None"
    /\ pc = "idle"
    /\ target_state = Absent
    /\ current_attempt = 0
    /\ page_content = NoSnapshot
    /\ state_verification = NoValue
    /\ current_state = NoValue
    /\ nav_plan = NoValue
    /\ idx = 0
    /\ result = NoValue
    /\ raised = FALSE
    /\ caught = FALSE
    /\ epc = "e_idle"
    /\ action = NoAction
    /\ retry_count = 0
    /\ eresult = FALSE
    /\ plan_requests = 0
    /\ first_verify = "none"
    /\ exec_calls = 0
    /\ executed = <<>>
    /\ snap_fresh = FALSE
    /\ reached = FALSE
    /\ last_verify_at = "none"
    /\ vis_waits = 0
    /\ vis_timeouts = 0
    /\ dispatched = <<>>
    /\ application_data = Absent
    /\ new_page = "None"
    /\ form_plan = NoFormPlan
    /\ stage_log = <<>>
    /\ task = "none"
    /\ response = NoResponse
    /\ inference_calls = 0
    /\ load_outcomes = <<>>
    /\ extract_outcomes = <<>>
    /\ load_result = NoLoad
    /\ content = NoContent
    /\ NoBatch

\* the navigator is the AINavigator of llm.py, which defines neither
\* get_form_fill_plan nor verify_form_completion
Init == NoCall /\ form_methods = FALSE

(***************************************************************************)
(* init_browser and close                                                  *)
(***************************************************************************)
InitBrowser ==
    /\ pc = "idle"
    /\ page = "None"
    /\ \E o \in {"ok", "launch_fails", "no_token", "init_model_fails"} :
          /\ page' = IF o = "launch_fails" THEN "None" ELSE "open"
          /\ ai_navigator' = CASE o = "ok" -> "ready"
                               [] o = "init_model_fails" -> "uninit"
                               [] OTHER -> ai_navigator
    /\ UNCHANGED <<pc, outVars, navVars, navHist, execVars, execHist>>
    /\ UNCHANGED <<form_methods, formVars, codecVars>>

\* close() runs from the shutdown handler, at any suspension point of a call
Close ==
    /\ page = "open"
    /\ page' = "closed"
    /\ new_page' = IF new_page = "open" THEN "closed" ELSE new_page
    /\ UNCHANGED <<ai_navigator, pc, outVars, navVars, navHist, execVars, execHist,
                   form_methods, application_data, form_plan, stage_log, codecVars>>

(***************************************************************************)
(* execute_action                                                          *)
(***************************************************************************)
\* the call is over: its locals and its history are gone
ExecForget ==
    /\ epc' = "e_idle"
    /\ action' = NoAction
    /\ retry_count' = 0
    /\ eresult' = FALSE
    /\ vis_waits' = 0
    /\ vis_timeouts' = 0
    /\ dispatched' = <<>>

\* the call starts: max_retries = 3, retry_count = 0
ExecStart(a) ==
    /\ epc' = "e_while"
    /\ action' = a
    /\ retry_count' = 0
    /\ eresult' = FALSE
    /\ vis_waits' = 0
    /\ vis_timeouts' = 0
    /\ dispatched' = <<>>

ExecReturn(b) ==
    /\ epc' = "e_ret"
    /\ eresult' = b

\* faulty variant: no outer except clause, the exception leaves execute_action
ExecExcept_propagates ==
    /\ epc' = "e_raised"
    /\ eresult' = FALSE

\* except Exception as e: log it, then return False
ExecExcept == ExecReturn(FALSE)

\* while retry_count < max_retries: read the action, choose the first step
ExecWhile ==
    /\ epc = "e_while"
    /\ IF retry_count >= max_retries
       THEN ExecReturn(FALSE)
       ELSE IF action.t # "obj"
       THEN ExecExcept
       ELSE /\ epc' = IF HasSelector(action) THEN "e_selwait" ELSE "e_dispatch"
            /\ UNCHANGED eresult
    /\ UNCHANGED <<objVars, pc, outVars, navVars, navHist, action,
                   retry_count, execHist>>
    /\ UNCHANGED <<form_methods, formVars, codecVars>>

\* faulty variant: a visibility timeout ends the call at once
ExecSelectorWait_no_retry ==
    /\ epc = "e_selwait"
    /\ vis_waits' = vis_waits + 1
    /\ \E o \in PrimOutcomes(page) :
          IF o = "ok"
          THEN /\ epc' = "e_dispatch"
               /\ UNCHANGED <<eresult, vis_timeouts>>
          ELSE /\ ExecReturn(FALSE)
               /\ vis_timeouts' = vis_timeouts + (IF o = "timeout" THEN 1 ELSE 0)
    /\ UNCHANGED <<objVars, pc, outVars, navVars, navHist, action, retry_count,
                   dispatched>>
    /\ UNCHANGED <<form_methods, formVars, codecVars>>

\* wait_for_selector(selector, timeout=5000, state='visible')
ExecSelectorWait ==
    /\ epc = "e_selwait"
    /\ vis_waits' = vis_waits + 1
    /\ \E o \in PrimOutcomes(page) :
          CASE o = "ok" ->
                  /\ epc' = "e_dispatch"
                  /\ UNCHANGED <<eresult, retry_count, vis_timeouts>>
            [] o = "timeout" ->
                  /\ retry_count' = retry_count + 1
                  /\ vis_timeouts' = vis_timeouts + 1
                  /\ epc' = "e_while"
                  /\ UNCHANGED eresult
            [] OTHER ->
                  /\ ExecExcept
                  /\ UNCHANGED <<retry_count, vis_timeouts>>
    /\ UNCHANGED <<objVars, pc, outVars, navVars, navHist, action, dispatched>>
    /\ UNCHANGED <<form_methods, formVars, codecVars>>

\* faulty variant: a timeout of the dispatch ends the call like any error
ExecDispatch_no_retry ==
    /\ epc = "e_dispatch"
    /\ \E run \in DispatchRuns(action, page) :
          /\ dispatched' = dispatched \o Performed(action, run)
          /\ IF run.exc = "none"
             THEN /\ epc' = "e_pause"
                  /\ UNCHANGED <<eresult, retry_count>>
             ELSE /\ ExecExcept
                  /\ UNCHANGED retry_count
    /\ UNCHANGED <<objVars, pc, outVars, navVars, navHist, action,
                   vis_waits, vis_timeouts>>
    /\ UNCHANGED <<form_methods, formVars, codecVars>>

\* the if/elif chain on action_type
ExecDispatch ==
    /\ epc = "e_dispatch"
    /\ \E run \in DispatchRuns(action, page) :
          /\ dispatched' = dispatched \o Performed(action, run)
          /\ CASE run.exc = "none" ->
                     /\ epc' = "e_pause"
                     /\ UNCHANGED <<eresult, retry_count>>
               [] run.exc = "timeout" ->
                     /\ retry_count' = retry_count + 1
                     /\ epc' = "e_backoff"
                     /\ UNCHANGED eresult
               [] OTHER ->
                     /\ ExecExcept
                     /\ UNCHANGED retry_count
    /\ UNCHANGED <<objVars, pc, outVars, navVars, navHist, action,
                   vis_waits, vis_timeouts>>
    /\ UNCHANGED <<form_methods, formVars, codecVars>>

\* await asyncio.sleep(0.5) after any action
ExecPause ==
    /\ epc = "e_pause"
    /\ epc' = "e_load"
    /\ dispatched' = Append(dispatched, SleepCall("0.5"))
    /\ UNCHANGED <<objVars, pc, outVars, navVars, navHist, action,
                   retry_count, eresult, vis_waits, vis_timeouts>>
    /\ UNCHANGED <<form_methods, formVars, codecVars>>

\* faulty variant: True is returned without the wait for the page
ExecLoad_no_wait ==
    /\ epc = "e_load"
    /\ ExecReturn(TRUE)
    /\ UNCHANGED <<objVars, pc, outVars, navVars, navHist, action,
                   retry_count, execHist>>
    /\ UNCHANGED <<form_methods, formVars, codecVars>>

\* await self.wait_for_page_load(); return True
ExecLoad ==
    /\ epc = "e_load"
    /\ \E load \in LoadResults(page) :
          IF load.raised
          THEN /\ ExecExcept
               /\ dispatched' = dispatched \o <<"wait_for_page_load">> \o Raised("error")
          ELSE /\ ExecReturn(TRUE)
               /\ dispatched' = Append(dispatched, "wait_for_page_load")
    /\ UNCHANGED <<objVars, pc, outVars, navVars, navHist, action,
                   retry_count, vis_waits, vis_timeouts>>
    /\ UNCHANGED <<form_methods, formVars, codecVars>>

\* except PlaywrightTimeout: await asyncio.sleep(1); continue
ExecBackoff ==
    /\ epc = "e_backoff"
    /\ epc' = "e_while"
    /\ UNCHANGED <<objVars, pc, outVars, navVars, navHist, action,
                   retry_count, eresult, execHist>>
    /\ UNCHANGED <<form_methods, formVars, codecVars>>

\* execute_action called on its own
CallExecuteAction ==
    /\ pc = "idle"
    /\ \E a \in ExecActions : ExecStart(a)
    /\ pc' = "exec_direct"
    /\ UNCHANGED <<objVars, outVars, navVars, navHist>>
    /\ UNCHANGED <<form_methods, formVars, codecVars>>

ExecDirectReturn ==
    /\ pc = "exec_direct"
    /\ epc = "e_ret"
    /\ pc' = "done"
    /\ UNCHANGED <<objVars, outVars, navVars, navHist, execVars, execHist>>
    /\ UNCHANGED <<form_methods, formVars, codecVars>>

(***************************************************************************)
(* navigate_with_ai                                                        *)
(***************************************************************************)
NavReturn(r) ==
    /\ pc' = "done"
    /\ result' = r
    /\ raised' = FALSE
    /\ caught' = FALSE

\* faulty variant: no except clause, the exception leaves the call
NavExcept_propagates(e) ==
    /\ pc' = "done"
    /\ result' = NoValue
    /\ raised' = TRUE
    /\ caught' = FALSE

\* except Exception as e: return {"status": "error", "message": str(e)}
NavExcept(e) ==
    /\ pc' = "done"
    /\ result' = ErrorResult(e)
    /\ raised' = FALSE
    /\ caught' = TRUE

CallNavigate ==
    /\ pc = "idle"
    /\ \E t \in Targets : target_state' = t
    /\ pc' = "nav_ensure"
    /\ UNCHANGED <<objVars, outVars, current_attempt, page_content,
                   state_verification, current_state, nav_plan, idx, navHist,
                   execVars, execHist>>
    /\ UNCHANGED <<form_methods, formVars, codecVars>>

\* if self.ai_navigator is None: construct it and init_model()
NavEnsure ==
    /\ pc = "nav_ensure"
    /\ IF ai_navigator = "None"
       THEN \E o \in {"ok", "no_token", "init_model_fails"} :
               CASE o = "ok" ->
                       /\ ai_navigator' = "ready"
                       /\ pc' = "nav_while"
                       /\ UNCHANGED outVars
                 [] o = "no_token" ->
                       /\ NavExcept(NoToken)
                       /\ UNCHANGED ai_navigator
                 [] OTHER ->
                       /\ ai_navigator' = "uninit"
                       /\ NavExcept("init_model failed")
       ELSE /\ pc' = "nav_while"
            /\ UNCHANGED <<ai_navigator, outVars>>
    /\ UNCHANGED <<page, navVars, navHist, execVars, execHist>>
    /\ UNCHANGED <<form_methods, formVars, codecVars>>

\* while current_attempt < max_attempts, and the return after the loop
NavWhile ==
    /\ pc = "nav_while"
    /\ IF current_attempt < max_attempts
       THEN /\ pc' = "nav_capture"
            /\ UNCHANGED outVars
       ELSE NavReturn(Result("error", AttemptsMessage, NoNum))
    /\ UNCHANGED <<objVars, navVars, navHist, execVars, execHist>>
    /\ UNCHANGED <<form_methods, formVars, codecVars>>

\* page_content = await self.get_page_content()
NavCapture ==
    /\ pc = "nav_capture"
    /\ \E r \in SnapshotResults(page) :
              IF r.raised
              THEN /\ NavExcept(r.error)
                   /\ UNCHANGED <<page_content, snap_fresh>>
              ELSE /\ page_content' = r.content
                   /\ snap_fresh' = TRUE
                   /\ pc' = "nav_verify"
                   /\ UNCHANGED outVars
    /\ UNCHANGED <<objVars, target_state, current_attempt, state_verification,
                   current_state, nav_plan, idx, plan_requests, first_verify,
                   exec_calls, executed, reached, last_verify_at, execVars,
                   execHist>>
    /\ UNCHANGED <<form_methods, formVars, codecVars>>

\* the value the latest verify_state call of this invocation returned
LastVerification ==
    CASE last_verify_at = "state_verification" -> state_verification
      [] last_verify_at = "current_state" -> current_state
      [] OTHER -> NoValue

\* the history of the first verification
FirstVerify(v) ==
    IF first_verify # "none" THEN first_verify
    ELSE IF IsDict(v) /\ GetSuccess(v) THEN "success" ELSE "failure"

\* faulty variant: a reported success does not end the call
AfterVerification_goes_on(v, next) ==
    IF ~IsDict(v) THEN NavExcept(NoGetAttr) /\ UNCHANGED reached
    ELSE /\ pc' = next
         /\ reached' = (reached \/ GetSuccess(v))
         /\ UNCHANGED outVars

\* faulty variant: a success reported in the middle of a plan does not end the call
AfterVerification_no_short_circuit(v, next) ==
    IF ~IsDict(v) THEN NavExcept(NoGetAttr) /\ UNCHANGED reached
    ELSE IF GetSuccess(v) /\ next # "nav_for"
    THEN /\ NavReturn(Result("success", ReachedMessage(target_state), GetConfidence(v)))
         /\ reached' = TRUE
    ELSE /\ pc' = next
         /\ reached' = (reached \/ GetSuccess(v))
         /\ UNCHANGED outVars

\* faulty variant: the confidence returned is the one of the verification at the top
\* of the loop
AfterVerification_stale_confidence(v, next) ==
    IF ~IsDict(v) THEN NavExcept(NoGetAttr) /\ UNCHANGED reached
    ELSE IF GetSuccess(v)
    THEN /\ NavReturn(Result("success", ReachedMessage(target_state),
                             GetConfidence(state_verification)))
         /\ reached' = TRUE
    ELSE /\ pc' = next
         /\ UNCHANGED <<outVars, reached>>

\* what follows a verification: .get on a value that is no dict raises, a
\* true success returns, anything else goes on to next
AfterVerification(v, next) ==
    IF ~IsDict(v) THEN NavExcept(NoGetAttr) /\ UNCHANGED reached
    ELSE IF GetSuccess(v)
    THEN /\ NavReturn(Result("success", ReachedMessage(target_state), GetConfidence(v)))
         /\ reached' = TRUE
    ELSE /\ pc' = next
         /\ UNCHANGED <<outVars, reached>>

\* state_verification = await self.ai_navigator.verify_state(page_content, target_state)
NavVerify ==
    /\ pc = "nav_verify"
    /\ \E v \in VerifyResults(ai_navigator) :
          /\ state_verification' = v
          /\ last_verify_at' = "state_verification"
          /\ first_verify' = FirstVerify(v)
          /\ AfterVerification(v, "nav_plan")
    /\ UNCHANGED <<objVars, target_state, current_attempt, page_content,
                   current_state, nav_plan, idx, plan_requests, exec_calls,
                   executed, snap_fresh, execVars, execHist>>
    /\ UNCHANGED <<form_methods, formVars, codecVars>>

\* faulty variant: an error plan is executed like any other
AfterPlan_no_status_test(p) ==
    IF ~IsDict(p) THEN NavExcept(NotSubscript)
    ELSE IF p.status = Absent THEN NavExcept(KeyErrorStatus)
    ELSE /\ pc' = "nav_for"
         /\ UNCHANGED outVars

\* what follows a plan: subscripting a value that is no dict, or a dict
\* without "status", raises; an error plan is returned as it is
AfterPlan(p) ==
    IF ~IsDict(p) THEN NavExcept(NotSubscript)
    ELSE IF p.status = Absent THEN NavExcept(KeyErrorStatus)
    ELSE IF p.status = "error" THEN NavReturn(p)
    ELSE /\ pc' = "nav_for"
         /\ UNCHANGED outVars

\* nav_plan = await self.ai_navigator.get_navigation_plan(page_content, target_state)
\* and the status test.  page_content is not read again before the next
\* capture assigns it, so the model forgets it here
NavPlan ==
    /\ pc = "nav_plan"
    /\ \E p \in PlanResults(ai_navigator) :
          /\ nav_plan' = p
          /\ AfterPlan(p)
    /\ plan_requests' = plan_requests + 1
    /\ idx' = 0
    /\ executed' = <<>>
    /\ page_content' = NoSnapshot
    /\ UNCHANGED <<objVars, target_state, current_attempt,
                   state_verification, current_state, first_verify, exec_calls,
                   snap_fresh, reached, last_verify_at, execVars, execHist>>
    /\ UNCHANGED <<form_methods, formVars, codecVars>>

\* faulty variant: the attempt counter is not incremented at the end of a plan
NavFor_no_increment ==
    /\ pc = "nav_for"
    /\ current_state' = NoValue
    /\ IF nav_plan.actions_t = "null"
       THEN /\ NavExcept(NotIterable)
            /\ UNCHANGED <<current_attempt, idx, exec_calls, snap_fresh, execVars,
                           execHist>>
       ELSE IF idx < Len(GetActions(nav_plan))
       THEN /\ idx' = idx + 1
            /\ ExecStart(GetActions(nav_plan)[idx + 1])
            /\ exec_calls' = exec_calls + 1
            /\ snap_fresh' = FALSE
            /\ pc' = "nav_exec"
            /\ UNCHANGED <<outVars, current_attempt>>
       ELSE /\ pc' = "nav_while"
            /\ UNCHANGED <<outVars, current_attempt, idx, exec_calls, snap_fresh,
                           execVars, execHist>>
    /\ UNCHANGED <<objVars, target_state, page_content, state_verification,
                   nav_plan, plan_requests, first_verify, executed,
                   reached, last_verify_at>>
    /\ UNCHANGED <<form_methods, formVars, codecVars>>

\* for action in nav_plan.get("actions", []): the next action, or the end of
\* the plan and current_attempt += 1.  current_state is not read again
\* before the next verification assigns it, so the model forgets it here
NavFor ==
    /\ pc = "nav_for"
    /\ current_state' = NoValue
    /\ IF nav_plan.actions_t = "null"
       THEN /\ NavExcept(NotIterable)
            /\ UNCHANGED <<current_attempt, idx, exec_calls, snap_fresh, execVars,
                           execHist>>
       ELSE IF idx < Len(GetActions(nav_plan))
       THEN /\ idx' = idx + 1
            /\ ExecStart(GetActions(nav_plan)[idx + 1])
            /\ exec_calls' = exec_calls + 1
            /\ snap_fresh' = FALSE
            /\ pc' = "nav_exec"
            /\ UNCHANGED <<outVars, current_attempt>>
       ELSE /\ current_attempt' = current_attempt + 1
            /\ pc' = "nav_while"
            /\ UNCHANGED <<outVars, idx, exec_calls, snap_fresh, execVars,
                           execHist>>
    /\ UNCHANGED <<objVars, target_state, page_content, state_verification,
                   nav_plan, plan_requests, first_verify, executed,
                   reached, last_verify_at>>
    /\ UNCHANGED <<form_methods, formVars, codecVars>>

\* faulty variant: break instead of continue
AfterAction_break(success) == IF success THEN "nav_settle" ELSE "nav_while"

\* faulty variant: no verification after a successful action
AfterAction_no_verify(success) == "nav_for"

\* where the loop body goes with the value execute_action returned
AfterAction(success) == IF success THEN "nav_settle" ELSE "nav_for"

\* success = await self.execute_action(action); if not success: continue
NavExecReturn ==
    /\ pc = "nav_exec"
    /\ epc = "e_ret"
    /\ executed' = Append(executed, [i |-> idx, ok |-> eresult, verified |-> FALSE])
    /\ pc' = AfterAction(eresult)
    /\ ExecForget
    /\ UNCHANGED <<objVars, outVars, navVars, plan_requests, first_verify,
                   exec_calls, snap_fresh, reached, last_verify_at>>
    /\ UNCHANGED <<form_methods, formVars, codecVars>>

\* await self.wait_for_page_load() after a successful action
NavSettle ==
    /\ pc = "nav_settle"
    /\ \E load \in LoadResults(page) :
          IF load.raised
          THEN NavExcept(PageLoadError)
          ELSE /\ pc' = "nav_reverify"
               /\ UNCHANGED outVars
    /\ UNCHANGED <<objVars, navVars, navHist, execVars, execHist>>
    /\ UNCHANGED <<form_methods, formVars, codecVars>>

MarkVerified(log, fresh) ==
    [log EXCEPT ![Len(log)].verified = fresh]

\* current_state = await self.ai_navigator.verify_state(
\*     await self.get_page_content(), target_state)
NavReverify ==
    /\ pc = "nav_reverify"
    /\ \E r \in SnapshotResults(page) :
              IF r.raised
              THEN /\ NavExcept(r.error)
                   /\ UNCHANGED <<current_state, first_verify, executed, reached,
                                  last_verify_at>>
              ELSE \E v \in VerifyResults(ai_navigator) :
                      /\ current_state' = v
                      /\ last_verify_at' = "current_state"
                      /\ first_verify' = FirstVerify(v)
                      /\ executed' = MarkVerified(executed, TRUE)
                      /\ AfterVerification(v, "nav_for")
    /\ UNCHANGED <<objVars, target_state, current_attempt, page_content,
                   state_verification, nav_plan, idx, plan_requests, exec_calls,
                   snap_fresh, execVars, execHist>>
    /\ UNCHANGED <<form_methods, formVars, codecVars>>

\* the caller takes the result; the next call starts from fresh locals
Return ==
    /\ pc = "done"
    /\ pc' = "idle"
    /\ target_state' = Absent
    /\ current_attempt' = 0
    /\ page_content' = NoSnapshot
    /\ state_verification' = NoValue
    /\ current_state' = NoValue
    /\ nav_plan' = NoValue
    /\ idx' = 0
    /\ result' = NoValue
    /\ raised' = FALSE
    /\ caught' = FALSE
    /\ epc' = "e_idle"
    /\ action' = NoAction
    /\ retry_count' = 0
    /\ eresult' = FALSE
    /\ plan_requests' = 0
    /\ first_verify' = "none"
    /\ exec_calls' = 0
    /\ executed' = <<>>
    /\ snap_fresh' = FALSE
    /\ reached' = FALSE
    /\ last_verify_at' = "none"
    /\ vis_waits' = 0
    /\ vis_timeouts' = 0
    /\ dispatched' = <<>>
    /\ application_data' = Absent
    /\ new_page' = "None"
    /\ form_plan' = NoFormPlan
    /\ stage_log' = <<>>
    /\ task' = "none"
    /\ response' = NoResponse
    /\ inference_calls' = 0
    /\ load_outcomes' = <<>>
    /\ extract_outcomes' = <<>>
    /\ load_result' = NoLoad
    /\ content' = NoContent
    /\ UNCHANGED batchVars
    /\ UNCHANGED <<objVars, form_methods>>

ExecStep ==
    \/ ExecWhile
    \/ ExecSelectorWait
    \/ ExecDispatch
    \/ ExecPause
    \/ ExecLoad
    \/ ExecBackoff

NavStep ==
    \/ NavEnsure
    \/ NavWhile
    \/ NavCapture
    \/ NavVerify
    \/ NavPlan
    \/ NavFor
    \/ NavExecReturn
    \/ NavSettle
    \/ NavReverify

Next ==
    \/ InitBrowser
    \/ Close
    \/ CallExecuteAction
    \/ ExecDirectReturn
    \/ CallNavigate
    \/ ExecStep
    \/ NavStep
    \/ Return

Spec == Init /\ [][Next]_vars

\* one step of the call in progress
CallStep == NavStep \/ ExecStep \/ ExecDirectReturn

CallInProgress == pc \notin {"idle", "done"}

(***************************************************************************)
(* Form filling: submit_application_form (browser.py) and                  *)
(* _fill_application_form (job_processor.py).  llm.py defines neither      *)
(* get_form_fill_plan nor verify_form_completion: with form_methods FALSE  *)
(* the attribute lookup raises; with form_methods TRUE the navigator       *)
(* offers both methods with the results spec.md gives them.                *)
(***************************************************************************)
\* the variables of navigate_with_ai that the form calls do not use
navOnly == <<target_state, current_attempt, state_verification, current_state,
             nav_plan, plan_requests, first_verify, snap_fresh, reached,
             last_verify_at>>

Applications == {"application of A. Candidate"}

SubmitSelectors == {"#submit", Absent}

\* planFormFill: a plan with status, actions and submit selector, or an
\* error-status plan with no actions
FormPlanResults ==
    {FormPlan(Plan("success", Absent, "list", al), sel) :
        al \in ActionLists, sel \in SubmitSelectors}
        \cup {FormPlan(Plan("error", "no form on this page", "list", <<>>), Absent)}

\* the completion verification: success, or failure with the missing fields
CompletionResults ==
    {Verification("true", NoNum, <<>>), Verification("false", NoNum, <<"phone">>)}

NoVerifyAttr == "'NoneType' object has no attribute 'verify_state'"
NoFormMethod == "'AINavigator' object has no attribute 'get_form_fill_plan'"
KeyErrorActions == "'actions'"

Log(stage, ok) == [stage |-> stage, ok |-> ok]

\* str(action) inside the message
ActionText(a) == a.type \o " " \o a.selector

FailedActionMessage(a) == "Failed to execute form action: " \o ActionText(a)

\* the dicts the form calls return; message may be absent
FormResult(status, message) == Result(status, message, NoNum)

FormReturn(r) ==
    /\ pc' = "done"
    /\ result' = r
    /\ raised' = FALSE
    /\ caught' = FALSE

\* except Exception as e: return {"status": "error", "message": str(e)}
FormExcept(e) ==
    /\ pc' = "done"
    /\ result' = ErrorResult(e)
    /\ raised' = FALSE
    /\ caught' = TRUE

InSubmit == application_data # Absent /\ new_page = "None"

InFill == application_data # Absent /\ new_page # "None"

CallSubmit ==
    /\ pc = "idle"
    /\ \E d \in Applications : application_data' = d
    /\ pc' = "sub_capture"
    /\ UNCHANGED <<objVars, outVars, navVars, navHist, execVars, execHist,
                   form_methods, new_page, form_plan, stage_log>>
    /\ UNCHANGED codecVars

\* page_content = await self.get_page_content()
SubCapture ==
    /\ pc = "sub_capture"
    /\ \E r \in SnapshotResults(page) :
          /\ stage_log' = Append(stage_log, Log("capture", ~r.raised))
          /\ IF r.raised
             THEN /\ FormExcept(r.error)
                  /\ UNCHANGED page_content
             ELSE /\ page_content' = r.content
                  /\ pc' = "sub_verify"
                  /\ UNCHANGED outVars
    /\ UNCHANGED <<objVars, navOnly, idx, exec_calls, executed, execVars, execHist,
                   form_methods, application_data, new_page, form_plan>>
    /\ UNCHANGED codecVars

\* form_verification = await self.ai_navigator.verify_state(page_content,
\* "application_form") and the test on its success
SubVerify ==
    /\ pc = "sub_verify"
    /\ IF ai_navigator = "None"
       THEN /\ FormExcept(NoVerifyAttr)
            /\ UNCHANGED stage_log
       ELSE \E form_verification \in VerifyResults(ai_navigator) :
               /\ stage_log' = Append(stage_log,
                      Log("verify", IsDict(form_verification) /\ GetSuccess(form_verification)))
               /\ IF ~IsDict(form_verification) THEN FormExcept(NoGetAttr)
                  ELSE IF ~GetSuccess(form_verification)
                  THEN FormReturn(FormResult("error", "Not on application form page"))
                  ELSE /\ pc' = "sub_plan"
                       /\ UNCHANGED outVars
    /\ UNCHANGED <<objVars, navOnly, page_content, idx, exec_calls, executed,
                   execVars, execHist, form_methods, application_data, new_page,
                   form_plan>>
    /\ UNCHANGED codecVars

\* faulty variant: an error plan is executed like any other
AfterFormPlan_no_status_test(p, next) ==
    IF ~IsDict(p) THEN FormExcept(NotSubscript)
    ELSE IF p.status = Absent THEN FormExcept(KeyErrorStatus)
    ELSE /\ pc' = next
         /\ UNCHANGED outVars

\* if form_plan["status"] == "error": return form_plan
AfterFormPlan(p, next) ==
    IF ~IsDict(p) THEN FormExcept(NotSubscript)
    ELSE IF p.status = Absent THEN FormExcept(KeyErrorStatus)
    ELSE IF p.status = "error" THEN FormReturn(p)
    ELSE /\ pc' = next
         /\ UNCHANGED outVars

\* form_plan = await self.ai_navigator.get_form_fill_plan(page_content,
\* application_data) and the status test.  page_content is not read again
\* in this call, so the model forgets it here
SubPlan ==
    /\ pc = "sub_plan"
    /\ page_content' = NoSnapshot
    /\ IF ~form_methods
       THEN /\ FormExcept(NoFormMethod)
            /\ UNCHANGED <<form_plan, stage_log>>
       ELSE \E fp \in FormPlanResults :
               /\ form_plan' = fp
               /\ stage_log' = Append(stage_log, Log("plan", fp.plan.status # "error"))
               /\ AfterFormPlan(fp.plan, "sub_for")
    /\ UNCHANGED <<objVars, navOnly, idx, exec_calls, executed, execVars, execHist,
                   form_methods, application_data, new_page>>
    /\ UNCHANGED codecVars

\* for action in form_plan.get("actions", []): success = await
\* self.execute_action(action); after the last action, the rest of the call
SubFor ==
    /\ pc = "sub_for"
    /\ IF form_plan.plan.actions_t = "null"
       THEN /\ FormExcept(NotIterable)
            /\ UNCHANGED <<idx, exec_calls, execVars, execHist>>
       ELSE IF idx < Len(GetActions(form_plan.plan))
       THEN /\ idx' = idx + 1
            /\ ExecStart(GetActions(form_plan.plan)[idx + 1])
            /\ exec_calls' = exec_calls + 1
            /\ pc' = "sub_exec"
            /\ UNCHANGED outVars
       ELSE /\ pc' = "sub_settle"
            /\ UNCHANGED <<outVars, idx, exec_calls, execVars, execHist>>
    /\ UNCHANGED <<objVars, navOnly, page_content, executed, form_methods, formVars>>
    /\ UNCHANGED codecVars

\* faulty variant: a false result is skipped, as in the navigation loop
AfterFormAction_skip(success, a, next) ==
    /\ pc' = next
    /\ UNCHANGED outVars

\* if not success: return the error naming the action
AfterFormAction(success, a, next) ==
    IF success
    THEN /\ pc' = next
         /\ UNCHANGED outVars
    ELSE FormReturn(FormResult("error", FailedActionMessage(a)))

\* the value execute_action returned for the action of the plan
SubExecReturn ==
    /\ pc = "sub_exec"
    /\ epc = "e_ret"
    /\ executed' = Append(executed, [i |-> idx, ok |-> eresult, verified |-> FALSE])
    /\ stage_log' = Append(stage_log, Log("action", eresult))
    /\ AfterFormAction(eresult, action, "sub_for")
    /\ ExecForget
    /\ UNCHANGED <<objVars, navOnly, page_content, idx, exec_calls, form_methods,
                   application_data, new_page, form_plan>>
    /\ UNCHANGED codecVars

\* await self.wait_for_page_load() before the final verification
SubSettle ==
    /\ pc = "sub_settle"
    /\ \E load \in LoadResults(page) :
          /\ stage_log' = Append(stage_log, Log("settle", ~load.raised))
          /\ IF load.raised
             THEN FormExcept(PageLoadError)
             ELSE /\ pc' = "sub_check"
                  /\ UNCHANGED outVars
    /\ UNCHANGED <<objVars, navOnly, page_content, idx, exec_calls, executed,
                   execVars, execHist, form_methods, application_data, new_page,
                   form_plan>>
    /\ UNCHANGED codecVars

\* faulty variant: the form is submitted whatever the completion check says
AfterCompletion_no_test(final_check) ==
    /\ pc' = "sub_click"
    /\ UNCHANGED outVars

\* if not final_check.get('success', False): return the validation error
AfterCompletion(final_check) ==
    IF ~GetSuccess(final_check)
    THEN FormReturn(FormResult("error", "Form validation failed"))
    ELSE /\ pc' = "sub_click"
         /\ UNCHANGED outVars

\* final_check = await self.ai_navigator.verify_form_completion(
\*     await self.get_page_content(), application_data)
SubCheck ==
    /\ pc = "sub_check"
    /\ \E r \in SnapshotResults(page) :
          IF r.raised
          THEN /\ stage_log' = Append(stage_log, Log("recapture", FALSE))
               /\ FormExcept(r.error)
          ELSE \E final_check \in CompletionResults :
                  /\ stage_log' = stage_log \o
                         <<Log("recapture", TRUE), Log("check", GetSuccess(final_check))>>
                  /\ AfterCompletion(final_check)
    /\ UNCHANGED <<objVars, navOnly, page_content, idx, exec_calls, executed,
                   execVars, execHist, form_methods, application_data, new_page,
                   form_plan>>
    /\ UNCHANGED codecVars

\* {"type": "click", "selector": form_plan.get("submit_selector"), ...}
SubmitAction(fp) == Action("obj", "click", fp.submit_selector, "absent", <<>>)

\* submit_result = await self.execute_action(the submit action)
SubClick ==
    /\ pc = "sub_click"
    /\ ExecStart(SubmitAction(form_plan))
    /\ exec_calls' = exec_calls + 1
    /\ pc' = "sub_submit"
    /\ UNCHANGED <<objVars, outVars, navOnly, page_content, idx, executed,
                   form_methods, formVars>>
    /\ UNCHANGED codecVars

\* if not submit_result: return the error
SubSubmitReturn ==
    /\ pc = "sub_submit"
    /\ epc = "e_ret"
    /\ stage_log' = Append(stage_log, Log("submit", eresult))
    /\ IF eresult
       THEN /\ pc' = "sub_final"
            /\ UNCHANGED outVars
       ELSE FormReturn(FormResult("error", "Failed to submit form"))
    /\ ExecForget
    /\ UNCHANGED <<objVars, navOnly, page_content, idx, exec_calls, executed,
                   form_methods, application_data, new_page, form_plan>>
    /\ UNCHANGED codecVars

\* await self.wait_for_page_load(); return the success result
SubFinal ==
    /\ pc = "sub_final"
    /\ \E load \in LoadResults(page) :
          /\ stage_log' = Append(stage_log, Log("wait", ~load.raised))
          /\ IF load.raised
             THEN FormExcept(PageLoadError)
             ELSE FormReturn(FormResult("success", "Application submitted successfully"))
    /\ UNCHANGED <<objVars, navOnly, page_content, idx, exec_calls, executed,
                   execVars, execHist, form_methods, application_data, new_page,
                   form_plan>>
    /\ UNCHANGED codecVars

\* _process_single_application hands a page of the launched browser to
\* _fill_application_form
CallFill ==
    /\ pc = "idle"
    /\ page = "open"
    /\ \E d \in Applications : application_data' = d
    /\ new_page' = "open"
    /\ pc' = "fill_capture"
    /\ UNCHANGED <<objVars, outVars, navVars, navHist, execVars, execHist,
                   form_methods, form_plan, stage_log>>
    /\ UNCHANGED codecVars

\* form_content = await self._get_page_content(page): the content, or {}
\* when an extraction fails
FillCapture ==
    /\ pc = "fill_capture"
    /\ \E ok \in (IF new_page = "open" THEN BOOLEAN ELSE {FALSE}) :
          stage_log' = Append(stage_log, Log("capture", ok))
    /\ pc' = "fill_plan"
    /\ UNCHANGED <<objVars, outVars, navVars, navHist, execVars, execHist,
                   form_methods, application_data, new_page, form_plan>>
    /\ UNCHANGED codecVars

\* form_plan = await self.ai.get_form_fill_plan(form_content, application_data)
\* and the status test
FillPlan ==
    /\ pc = "fill_plan"
    /\ IF ~form_methods
       THEN /\ FormExcept(NoFormMethod)
            /\ UNCHANGED <<form_plan, stage_log>>
       ELSE \E fp \in FormPlanResults :
               /\ form_plan' = fp
               /\ stage_log' = Append(stage_log, Log("plan", fp.plan.status # "error"))
               /\ AfterFormPlan(fp.plan, "fill_for")
    /\ UNCHANGED <<objVars, navVars, navHist, execVars, execHist, form_methods,
                   application_data, new_page>>
    /\ UNCHANGED codecVars

\* JobApplicationProcessor._execute_form_action: the values it can return
execute_form_action(pg, a) ==
    IF \/ a.t # "obj"
       \/ ~HasSelector(a)
       \/ a.type \notin {"fill", "select", "click", "upload"}
       \/ pg # "open"
    THEN {FALSE}
    ELSE {TRUE, FALSE}

\* for action in form_plan["actions"]: success = await
\* self._execute_form_action(page, action); after the last action, success
FillFor ==
    /\ pc = "fill_for"
    /\ IF form_plan.plan.actions_t # "list"
       THEN /\ FormExcept(IF form_plan.plan.actions_t = "null"
                          THEN NotIterable ELSE KeyErrorActions)
            /\ UNCHANGED <<idx, exec_calls, executed, stage_log>>
       ELSE IF idx < Len(form_plan.plan.actions)
       THEN \E ok \in execute_form_action(new_page, form_plan.plan.actions[idx + 1]) :
               /\ idx' = idx + 1
               /\ exec_calls' = exec_calls + 1
               /\ executed' = Append(executed,
                                     [i |-> idx + 1, ok |-> ok, verified |-> FALSE])
               /\ stage_log' = Append(stage_log, Log("action", ok))
               /\ AfterFormAction(ok, form_plan.plan.actions[idx + 1], "fill_for")
       ELSE /\ FormReturn(FormResult("success", Absent))
            /\ UNCHANGED <<idx, exec_calls, executed, stage_log>>
    /\ UNCHANGED <<objVars, navOnly, page_content, execVars, execHist, form_methods,
                   application_data, new_page, form_plan>>
    /\ UNCHANGED codecVars

SubmitStep ==
    \/ SubCapture
    \/ SubVerify
    \/ SubPlan
    \/ SubFor
    \/ SubExecReturn
    \/ SubSettle
    \/ SubCheck
    \/ SubClick
    \/ SubSubmitReturn
    \/ SubFinal

FillStep ==
    \/ FillCapture
    \/ FillPlan
    \/ FillFor

\* the navigator handed to the form calls: the AINavigator of llm.py, or one
\* that offers the two form methods
FormInit == NoCall /\ form_methods \in BOOLEAN

FormNext ==
    \/ InitBrowser
    \/ Close
    \/ CallSubmit
    \/ CallFill
    \/ SubmitStep
    \/ FillStep
    \/ ExecStep
    \/ Return

FormSpec == FormInit /\ [][FormNext]_vars

(***************************************************************************)
(* verify_state and get_navigation_plan called on their own (llm.py)       *)
(***************************************************************************)
\* the bodies the endpoint can answer the task's prompt with
TaskBodies(t) ==
    (IF t = "verify_state" THEN VerifyBodies ELSE PlanBodies)
        \cup {EmptyText, Truncated, NonObject("num"), NonObject("null")}

CallVerifyState ==
    /\ pc = "idle"
    /\ ai_navigator # "None"
    /\ task' = "verify_state"
    /\ pc' = "llm_ask"
    /\ UNCHANGED <<objVars, outVars, navVars, navHist, execVars, execHist,
                   form_methods, formVars, response, inference_calls, pageCallVars,
                   batchVars>>

CallGetNavigationPlan ==
    /\ pc = "idle"
    /\ ai_navigator # "None"
    /\ task' = "get_navigation_plan"
    /\ pc' = "llm_ask"
    /\ UNCHANGED <<objVars, outVars, navVars, navHist, execVars, execHist,
                   form_methods, formVars, response, inference_calls, pageCallVars,
                   batchVars>>

\* response = await chain.arun(...): one inference call; with no model
\* (init_model failed) the chain cannot be built and nothing is asked
LlmAsk ==
    /\ pc = "llm_ask"
    /\ IF ai_navigator = "ready"
       THEN /\ \E out \in LLMOutcomes(TaskBodies(task)) : response' = out
            /\ inference_calls' = inference_calls + 1
       ELSE /\ response' = [raised |-> TRUE, response |-> Response("none", NoValue)]
            /\ UNCHANGED inference_calls
    /\ pc' = "llm_decode"
    /\ UNCHANGED <<objVars, outVars, navVars, navHist, execVars, execHist,
                   form_methods, formVars, task, pageCallVars, batchVars>>

\* the decoding of the response and the return of the method
LlmDecode ==
    /\ pc = "llm_decode"
    /\ result' = IF task = "verify_state"
                 THEN verify_state(ai_navigator, response)
                 ELSE get_navigation_plan(ai_navigator, response)
    /\ raised' = FALSE
    /\ caught' = FALSE
    /\ pc' = "done"
    /\ UNCHANGED <<objVars, navVars, navHist, execVars, execHist, form_methods,
                   formVars, codecVars>>

CodecNext ==
    \/ InitBrowser
    \/ CallVerifyState
    \/ CallGetNavigationPlan
    \/ LlmAsk
    \/ LlmDecode
    \/ Return

CodecSpec == Init /\ [][CodecNext]_vars

(***************************************************************************)
(* get_page_content and wait_for_page_load called on their own (browser.py)*)
(***************************************************************************)
CallGetPageContent ==
    /\ pc = "idle"
    /\ \E load \in LoadOutcomes(page), outs \in ExtractOutcomes(page) :
          /\ load_outcomes' = load
          /\ extract_outcomes' = outs
    /\ task' = "get_page_content"
    /\ pc' = "page_call"
    /\ UNCHANGED <<objVars, outVars, navVars, navHist, execVars, execHist,
                   form_methods, formVars, response, inference_calls,
                   load_result, content, batchVars>>

CallWaitForPageLoad ==
    /\ pc = "idle"
    /\ \E load \in LoadOutcomes(page) : load_outcomes' = load
    /\ task' = "wait_for_page_load"
    /\ pc' = "page_call"
    /\ UNCHANGED <<objVars, outVars, navVars, navHist, execVars, execHist,
                   form_methods, formVars, response, inference_calls,
                   extract_outcomes, load_result, content, batchVars>>

\* faulty variant: the wait leaves the automation object without its page
PageCallReturn_drops_page ==
    /\ pc = "page_call"
    /\ load_result' = wait_for_page_load(load_outcomes)
    /\ page' = "closed"
    /\ raised' = load_result'.raised
    /\ pc' = "done"
    /\ UNCHANGED <<ai_navigator, result, caught, navVars, navHist, execVars, execHist,
                   form_methods, formVars, task, response, inference_calls,
                   load_outcomes, extract_outcomes, content, batchVars>>

\* the body of the called method, to its return or to the exception it raises
PageCallReturn ==
    /\ pc = "page_call"
    /\ load_result' = wait_for_page_load(load_outcomes)
    /\ IF task = "get_page_content"
       THEN /\ content' = get_page_content(page, load_outcomes, extract_outcomes)
            /\ raised' = content'.raised
       ELSE /\ raised' = load_result'.raised
            /\ UNCHANGED content
    /\ pc' = "done"
    /\ UNCHANGED <<objVars, result, caught, navVars, navHist, execVars, execHist,
                   form_methods, formVars, task, response, inference_calls,
                   load_outcomes, extract_outcomes, batchVars>>

PageNext ==
    \/ InitBrowser
    \/ Close
    \/ CallGetPageContent
    \/ CallWaitForPageLoad
    \/ PageCallReturn
    \/ Return

PageSpec == Init /\ [][PageNext]_vars

(***************************************************************************)
(* The methods of BrowserAutomation that act on the page, each called on   *)
(* its own: get_page_content, wait_for_page_load, execute_action           *)
(***************************************************************************)
BrowserNext ==
    \/ InitBrowser
    \/ Close
    \/ CallGetPageContent
    \/ CallWaitForPageLoad
    \/ PageCallReturn
    \/ CallExecuteAction
    \/ ExecStep
    \/ ExecDirectReturn
    \/ Return

BrowserSpec == Init /\ [][BrowserNext]_vars

(***************************************************************************)
(* Batches: process_job_applications, its job tasks, and the endpoints of  *)
(* main.py.  Each step is the code between two awaits; the event loop      *)
(* runs the steps of the requests and of the tasks in any order            *)
(***************************************************************************)
singleCallVars == <<objVars, pc, outVars, navVars, navHist, execVars, execHist,
                    form_methods, formVars, task, response, inference_calls,
                    pageCallVars>>

\* a second passes
Tick ==
    /\ clock < MaxSecond
    /\ clock' = clock + 1
    /\ UNCHANGED <<singleCallVars, rpc, rid, active_applications, relevant_jobs,
                   tpc, tpage, tresult, open_pages, page_ops>>

\* the control flow acts on the page
Acts(by, on) == page_ops' = page_ops \cup {[by |-> by, on |-> on]}

\* a step of a request that changes its position only, after acting on the
\* default page
RequestStep(r, next) ==
    /\ rpc' = [rpc EXCEPT ![r] = next]
    /\ Acts(MainFlow(r), DefaultPage)
    /\ UNCHANGED <<singleCallVars, clock, rid, active_applications, relevant_jobs,
                   tpc, tpage, tresult, open_pages>>

\* POST /api/v1/applications/batch: process_job_applications makes the
\* process id from the clock and stores the tracking record under it
StartBatch(r) ==
    /\ rpc[r] = "r_idle"
    /\ rid' = [rid EXCEPT ![r] = clock]
    /\ active_applications' = [active_applications EXCEPT ![clock] = Initiated]
    /\ rpc' = [rpc EXCEPT ![r] = "r_portal"]
    /\ UNCHANGED <<singleCallVars, clock, relevant_jobs, tpc, tpage, tresult,
                   open_pages, page_ops>>

\* search_career_portal: self.page.goto('https://www.google.com') and the wait
PortalGoto(r) ==
    /\ rpc[r] = "r_portal"
    /\ \E ok \in BOOLEAN :
          RequestStep(r, IF ok THEN "r_results" ELSE "r_returned_error")

\* search_career_portal: fill, press, wait_for_selector, evaluate
PortalResults(r) ==
    /\ rpc[r] = "r_results"
    /\ \E ok \in BOOLEAN :
          RequestStep(r, IF ok THEN "r_analyze" ELSE "r_returned_error")

\* the outcomes of self.ai.analyze_career_portal_results(...) followed by
\* the confidence test: a portal to visit, or none
PortalAnalyses == {"portal", "none"}

\* _find_career_portal: the analysis of the results; without the method the
\* AttributeError is caught, None is returned and the batch ends in error
PortalAnalyze(r) ==
    /\ rpc[r] = "r_analyze"
    /\ \E a \in (IF form_methods THEN PortalAnalyses ELSE {"none"}) :
          rpc' = [rpc EXCEPT ![r] = IF a = "portal" THEN "r_verify"
                                    ELSE "r_returned_error"]
    /\ UNCHANGED <<singleCallVars, clock, rid, active_applications, relevant_jobs,
                   tpc, tpage, tresult, open_pages, page_ops>>

\* _find_career_portal: self.browser.page.goto(best_match['url']), the
\* snapshot and its verification
PortalVerify(r) ==
    /\ rpc[r] = "r_verify"
    /\ \E ok \in BOOLEAN :
          RequestStep(r, IF ok THEN "r_jobs" ELSE "r_returned_error")

\* _search_relevant_jobs: goto(career_portal), navigate_with_ai, the search
\* and analyze_job_listings, all on self.browser.page
SearchJobs(r) ==
    /\ rpc[r] = "r_jobs"
    /\ \E ok \in BOOLEAN :
          RequestStep(r, IF ok THEN "r_match" ELSE "r_returned_error")

\* the relevant listings: those _calculate_job_match scores above 0.7
\* with self.ai.analyze_job_relevance; then jobs_found is stored
MatchJobs(r) ==
    /\ rpc[r] = "r_match"
    /\ \E found \in (IF form_methods THEN SUBSET Jobs ELSE {{}}) :
          /\ relevant_jobs' = [relevant_jobs EXCEPT ![r] = found]
          /\ active_applications' =
                [active_applications EXCEPT ![rid[r]].jobs_found = Cardinality(found)]
    /\ rpc' = [rpc EXCEPT ![r] = "r_spawn"]
    /\ UNCHANGED <<singleCallVars, clock, rid, tpc, tpage, tresult, open_pages,
                   page_ops>>

\* asyncio.create_task(self._process_single_application(...)) per job
SpawnTasks(r) ==
    /\ rpc[r] = "r_spawn"
    /\ tpc' = [t \in Tasks |->
                  IF t[1] = r /\ t[2] \in relevant_jobs[r] THEN "t_new" ELSE tpc[t]]
    /\ rpc' = [rpc EXCEPT ![r] = "r_gather"]
    /\ UNCHANGED <<singleCallVars, clock, rid, active_applications, relevant_jobs,
                   tpage, tresult, open_pages, page_ops>>

TasksOf(r) == {t \in Tasks : t[1] = r /\ t[2] \in relevant_jobs[r]}

\* results = await asyncio.gather(*tasks, return_exceptions=True), then the
\* final statistics and the return of the summary
FinishBatch(r) ==
    /\ rpc[r] = "r_gather"
    /\ \A t \in TasksOf(r) : tpc[t] = "t_done"
    /\ LET success_count == Cardinality({t \in TasksOf(r) : tresult[t] = "success"})
       IN  active_applications' =
              [active_applications EXCEPT ![rid[r]] =
                  TrackingRecord("completed", TRUE, @.jobs_found, success_count,
                                 Cardinality(TasksOf(r)) - success_count)]
    /\ rpc' = [rpc EXCEPT ![r] = "r_returned_success"]
    /\ UNCHANGED <<singleCallVars, clock, rid, relevant_jobs, tpc, tpage, tresult,
                   open_pages, page_ops>>

\* faulty variant: cancelling also ends the job tasks of the batch
CancelBatch_aborts(p) ==
    /\ active_applications[p] # NoRecord
    /\ active_applications' =
          [active_applications EXCEPT ![p].status = "cancelled", ![p].ended = TRUE]
    /\ tpc' = [t \in Tasks |->
                  IF rid[t[1]] = p /\ tpc[t] \notin {"t_none", "t_done"}
                  THEN "t_done" ELSE tpc[t]]
    /\ UNCHANGED <<singleCallVars, clock, rpc, rid, relevant_jobs, tpage,
                   tresult, open_pages, page_ops>>

\* DELETE /api/v1/applications/batch/{process_id}: cancel_batch_process on a
\* process id that is a key of active_applications (else 404, no change)
CancelBatch(p) ==
    /\ active_applications[p] # NoRecord
    /\ active_applications' =
          [active_applications EXCEPT ![p].status = "cancelled", ![p].ended = TRUE]
    /\ UNCHANGED <<singleCallVars, clock, rpc, rid, relevant_jobs, tpc, tpage,
                   tresult, open_pages, page_ops>>

\* GET /api/v1/applications/batch/{process_id}: get_batch_status
get_batch_status(p) ==
    IF active_applications[p] # NoRecord
    THEN [status |-> "in_progress", details |-> active_applications[p]]
    ELSE [status |-> "completed", details |-> NoRecord]

\* faulty variant: the task works on the page of the automation object
TaskPage_shared(t) == DefaultPage

\* the page the calls of _process_single_application and of its helpers
\* are made on: the local new_page, passed on as the parameter page
TaskPage(t) == tpage[t]

\* a step of a task after acting on its page
TaskStep(t, next, res) ==
    /\ tpc' = [tpc EXCEPT ![t] = next]
    /\ tresult' = [tresult EXCEPT ![t] = res]
    /\ Acts(t, TaskPage(t))
    /\ UNCHANGED <<singleCallVars, clock, rpc, rid, active_applications,
                   relevant_jobs, tpage, open_pages>>

\* new_page = await self.browser.browser.new_page(); when it raises, the
\* finally clause reads the unbound new_page and the task ends raising
TaskNewPage(t) ==
    /\ tpc[t] = "t_new"
    /\ \E ok \in BOOLEAN :
          IF ok
          THEN /\ tpage' = [tpage EXCEPT ![t] = NewPage(t)]
               /\ open_pages' = open_pages \cup {NewPage(t)}
               /\ tpc' = [tpc EXCEPT ![t] = "t_goto"]
               /\ UNCHANGED tresult
          ELSE /\ tpc' = [tpc EXCEPT ![t] = "t_done"]
               /\ tresult' = [tresult EXCEPT ![t] = "raised"]
               /\ UNCHANGED <<tpage, open_pages>>
    /\ UNCHANGED <<singleCallVars, clock, rpc, rid, active_applications,
                   relevant_jobs, page_ops>>

\* faulty variant: no finally clause, a task that fails on the posting ends
\* without closing its page
TaskGoto_no_finally(t) ==
    /\ tpc[t] = "t_goto"
    /\ \E ok \in BOOLEAN :
          IF ok THEN TaskStep(t, "t_fill", "none") ELSE TaskStep(t, "t_done", "error")

\* new_page.goto(job.url), _wait_for_page_load(new_page), then
\* new_page.wait_for_selector(...Apply...), click, _wait_for_page_load
TaskGoto(t) ==
    /\ tpc[t] = "t_goto"
    /\ \E ok \in BOOLEAN :
          IF ok THEN TaskStep(t, "t_fill", "none") ELSE TaskStep(t, "t_close", "error")

\* _fill_application_form(new_page, application_data): snapshot of the page,
\* self.ai.get_form_fill_plan, _execute_form_action(page, action) per action;
\* on success _submit_application(new_page)
TaskFill(t) ==
    /\ tpc[t] = "t_fill"
    /\ \E r \in (IF form_methods THEN {"success", "error"} ELSE {"error"}) :
          TaskStep(t, "t_close", r)

\* finally: await new_page.close()
TaskClose(t) ==
    /\ tpc[t] = "t_close"
    /\ open_pages' = open_pages \ {TaskPage(t)}
    /\ tpc' = [tpc EXCEPT ![t] = "t_done"]
    /\ Acts(t, TaskPage(t))
    /\ UNCHANGED <<singleCallVars, clock, rpc, rid, active_applications,
                   relevant_jobs, tpage, tresult>>

BatchStep ==
    \E r \in Requests :
        \/ StartBatch(r)
        \/ PortalGoto(r)
        \/ PortalResults(r)
        \/ PortalAnalyze(r)
        \/ PortalVerify(r)
        \/ SearchJobs(r)
        \/ MatchJobs(r)
        \/ SpawnTasks(r)
        \/ FinishBatch(r)

TaskRun ==
    \E t \in Tasks :
        \/ TaskNewPage(t)
        \/ TaskGoto(t)
        \/ TaskFill(t)
        \/ TaskClose(t)

Cancellation == \E p \in ProcessIds : CancelBatch(p)

BatchInit == NoCall /\ form_methods \in BOOLEAN

BatchNext ==
    \/ Tick
    \/ BatchStep
    \/ TaskRun
    \/ Cancellation

BatchSpec == BatchInit /\ [][BatchNext]_vars

(***************************************************************************)
(* Properties of navigate_with_ai                                          *)
(***************************************************************************)
InNavigate == target_state # Absent

NavDone == InNavigate /\ pc = "done"

\* a plan whose status is present and is not "error", with a list of actions
UsablePlan(p) == IsDict(p) /\ p.status \notin {Absent, "error"} /\ p.actions_t # "null"

\* C1: when the first verify_state call of an invocation reports success, the
\* invocation is over with status "success" and the confidence of that
\* verification, and no plan was requested and no action executed
C1_FirstVerificationSucceeds ==
    first_verify = "success" =>
        /\ pc = "done"
        /\ ~raised
        /\ result.status = "success"
        /\ last_verify_at = "state_verification"
        /\ result.confidence = GetConfidence(state_verification)
        /\ plan_requests = 0
        /\ exec_calls = 0

C1_Witness ==
    /\ NavDone
    /\ first_verify = "success"
    /\ state_verification = VTrue9
    /\ result.confidence = 9

C3_ErrorPlanEndsCall ==
    (InNavigate /\ IsDict(nav_plan) /\ nav_plan.status = "error") =>
        /\ pc = "done"
        /\ ~raised
        /\ result = nav_plan
        /\ result.message = nav_plan.message
        /\ executed = <<>>
        /\ idx = 0
        /\ epc = "e_idle"
        /\ last_verify_at = "state_verification"

C3_Witness ==
    /\ NavDone
    /\ nav_plan = ModelErrorPlan
    /\ result.message = "no route to target"
    /\ plan_requests = 2

\* the plan is left: the loop is back at its top with a plan behind it
PlanLeft == pc \in {"nav_while", "nav_capture", "nav_verify", "nav_plan"} /\ plan_requests > 0

\* the actions of the current plan were executed in plan order so far
InPlanOrder ==
    /\ \A j \in 1..Len(executed) : executed[j].i = j
    /\ pc = "nav_exec" =>
          /\ idx = Len(executed) + 1
          /\ idx <= Len(GetActions(nav_plan))
          /\ action = GetActions(nav_plan)[idx]

C5_MidPlanSuccessReturns ==
    (InNavigate /\ reached /\ last_verify_at = "current_state") =>
        /\ pc = "done"
        /\ ~raised
        /\ result.status = "success"
        /\ epc = "e_idle"
        /\ Len(executed) = idx
        /\ executed[idx].ok
        /\ executed[idx].verified

C5_Witness ==
    /\ NavDone
    /\ reached
    /\ last_verify_at = "current_state"
    /\ idx = 1
    /\ Len(GetActions(nav_plan)) = 3
    /\ plan_requests = 1

\* C6 as stated: when the next action of a plan starts, the action before it
\* was followed by a verification on a fresh snapshot, whatever it returned
C6_Original ==
    (InNavigate /\ pc = "nav_exec" /\ Len(executed) > 0) =>
        executed[Len(executed)].verified

\* C6 amended: when the next action of a plan starts, the action before it
\* was followed by a verification on a fresh snapshot exactly when
\* execute_action returned true for it
C6_VerifiedAfterSuccessfulAction ==
    (InNavigate /\ pc = "nav_exec" /\ Len(executed) > 0) =>
        (executed[Len(executed)].verified <=> executed[Len(executed)].ok)

C6_Witness ==
    /\ InNavigate
    /\ pc = "nav_exec"
    /\ Len(executed) = 2
    /\ executed[1].ok
    /\ executed[1].verified
    /\ ~executed[2].ok
    /\ ~executed[2].verified

\* C7: a result with status "success" is returned only when the latest
\* verify_state call reported success, and it carries the confidence of
\* that call (0 when the verification carries none)
C7_SuccessOnlyFromLastVerification ==
    (NavDone /\ result.status = "success") =>
        /\ IsDict(LastVerification)
        /\ GetSuccess(LastVerification)
        /\ result.confidence = GetConfidence(LastVerification)
        /\ result.message = ReachedMessage(target_state)

C7_Witness ==
    /\ NavDone
    /\ result.status = "success"
    /\ last_verify_at = "current_state"
    /\ state_verification = VFalse2
    /\ current_state = VTrue9
    /\ result.confidence = 9

\* steps execute_action can still take, at most
ExecRank ==
    LET left == 6 * (max_retries - retry_count)
    IN  CASE epc = "e_backoff"  -> left + 6
          [] epc = "e_while"    -> left + 5
          [] epc = "e_selwait"  -> left + 4
          [] epc = "e_dispatch" -> left + 3
          [] epc = "e_pause"    -> left + 2
          [] epc = "e_load"     -> left + 1
          [] OTHER              -> 0

ActionCost == 6 * max_retries + 10

AttemptCost == MaxPlanLen * ActionCost + 6

\* steps the loop body can still take on the current plan, at most
PlanRank ==
    LET left == (Len(GetActions(nav_plan)) - idx) * ActionCost
    IN  CASE pc = "nav_exec"     -> left + 4 + ExecRank
          [] pc = "nav_settle"   -> left + 3
          [] pc = "nav_reverify" -> left + 2
          [] OTHER               -> left + 1

\* steps the call in progress can still take, at most: each step of the call
\* makes it smaller
Measure ==
    LET left == (max_attempts - current_attempt) * AttemptCost
    IN  CASE pc = "nav_ensure"  -> left + 2
          [] pc = "nav_while"   -> left + 1
          [] pc = "nav_capture" -> left
          [] pc = "nav_verify"  -> left - 1
          [] pc = "nav_plan"    -> left - 2
          [] pc \in {"nav_for", "nav_exec", "nav_settle", "nav_reverify"} ->
                 left - AttemptCost + 2 + PlanRank
          [] pc = "exec_direct" -> 1 + ExecRank
          [] OTHER              -> 0

\* C8: the attempt counter starts at 0, never decreases during an invocation
\* and never exceeds 5, at most 5 plans are requested, and the invocation
\* terminates when every collaborator call returns: a call in progress can
\* always take a step, and each of its steps (every step but the closing of
\* the page by the shutdown handler) lowers a measure that is never negative
C8_Terminates ==
    /\ [](current_attempt \in 0..5 /\ plan_requests \in 0..5)
    /\ [](pc = "nav_ensure" => current_attempt = 0 /\ plan_requests = 0)
    /\ [][pc # "done" => current_attempt' >= current_attempt]_vars
    /\ [](Measure >= 0 /\ (CallInProgress => ENABLED CallStep))
    /\ [][CallInProgress /\ page' = page => Measure' < Measure]_vars

C8_Witness ==
    /\ NavDone
    /\ current_attempt = 5
    /\ plan_requests = 5

\* C9: whatever the model output decodes to, navigate_with_ai does not raise:
\* it returns a dict whose status is "success" or "error"
C9_NeverRaisesOnModelOutput ==
    NavDone =>
        /\ ~raised
        /\ IsDict(result)
        /\ result.status \in {"success", "error"}

C9_Witness ==
    /\ NavDone
    /\ ~raised
    /\ result.status = "error"
    /\ \/ ~IsDict(state_verification) /\ state_verification # NoValue
       \/ ~IsDict(nav_plan) /\ nav_plan # NoValue
       \/ IsDict(nav_plan) /\ nav_plan.status = Absent

(***************************************************************************)
(* Properties of the form calls                                            *)
(***************************************************************************)
InForm == application_data # Absent

\* the entries of the log for n actions of the plan, all successful
ActionsLogged(n) == [j \in 1..n |-> Log("action", TRUE)]

StagesLogged == {stage_log[j].stage : j \in 1..Len(stage_log)}

\* C13: in both form calls the actions are executed in plan order, and once an
\* action has returned false it is the last one executed: the call is over
\* with the error result naming that action, and neither a completion check
\* nor the submit action followed it
C13_FirstFailureAbortsForm ==
    InForm =>
        /\ \A j \in 1..Len(executed) : executed[j].i = j
        /\ pc = "sub_exec" =>
              /\ idx = Len(executed) + 1
              /\ action = GetActions(form_plan.plan)[idx]
        /\ \A j \in 1..Len(executed) :
              ~executed[j].ok =>
                  /\ j = Len(executed)
                  /\ pc = "done"
                  /\ ~raised
                  /\ result = FormResult("error",
                         FailedActionMessage(GetActions(form_plan.plan)[j]))
                  /\ epc = "e_idle"
                  /\ StagesLogged \cap {"settle", "recapture", "check", "submit", "wait"} = {}

C13_Witness ==
    /\ InSubmit
    /\ pc = "done"
    /\ Len(GetActions(form_plan.plan)) = 3
    /\ Len(executed) = 2
    /\ executed[1].ok
    /\ ~executed[2].ok
    /\ result.message = FailedActionMessage(ClickApply)

\* the submit action was passed to execute_action in this call
SubmitTried ==
    InSubmit /\ (pc \in {"sub_submit", "sub_final"} \/ "submit" \in StagesLogged)

\* C14: no stage but the actions of the plan is performed twice in a call, and
\* when the submit action is executed the call has, in this order, verified
\* the page as an application form, obtained a plan that is no error plan,
\* had true from every action of the plan, and had success from the
\* completion verification
C14_SubmitOnlyAfterAllStages ==
    /\ InForm =>
          \A j, k \in 1..Len(stage_log) :
              (j # k /\ stage_log[j].stage = stage_log[k].stage) =>
                  stage_log[j].stage = "action"
    /\ SubmitTried =>
          LET n == Len(GetActions(form_plan.plan))
              before == <<Log("capture", TRUE), Log("verify", TRUE), Log("plan", TRUE)>>
                            \o ActionsLogged(n)
                            \o <<Log("settle", TRUE), Log("recapture", TRUE),
                                 Log("check", TRUE)>>
          IN  /\ form_plan.plan.status # "error"
              /\ Len(executed) = n
              /\ \A j \in 1..n : executed[j].ok
              /\ Len(stage_log) >= n + 6
              /\ SubSeq(stage_log, 1, n + 6) = before
              /\ exec_calls = n + 1

C14_Witness ==
    /\ InSubmit
    /\ pc = "sub_final"
    /\ Len(GetActions(form_plan.plan)) = 2
    /\ Len(executed) = 2
    /\ stage_log[Len(stage_log)] = Log("submit", TRUE)

\* C15 as stated: when the page verified as an application form and nothing
\* the call asked for failed (plan, actions, completion check, submit action,
\* waits), the call ends with status "success" after the final wait
C15_HappyPathSucceeds ==
    (InSubmit /\ pc = "done" /\ Len(stage_log) >= 2
        /\ stage_log[2] = Log("verify", TRUE)
        /\ \A j \in 1..Len(stage_log) : stage_log[j].ok) =>
        /\ result.status = "success"
        /\ stage_log[Len(stage_log)] = Log("wait", TRUE)

(***************************************************************************)
(* Properties of the decoding of model responses                           *)
(***************************************************************************)
InCodec == task # "none"

\* the endpoint returned a text and the method has returned
Decoded == InCodec /\ pc = "done" /\ ~response.raised /\ ai_navigator = "ready"

\* the result the method gives for a response it cannot parse
ParseErrorResult(t) ==
    IF t = "verify_state" THEN ParsingErrorVerification ELSE InvalidPlan

\* the response holds one JSON object, between its first and its last brace
HasEmbeddedObject(r) == r.body.t = "obj"

\* C16 as stated: parsing never raises, and what it yields for a response
\* is the parse error or exactly the JSON object between the first and the
\* last brace of the response
C16_ParseErrorOrEmbeddedObject ==
    Decoded =>
        /\ ~raised
        /\ \/ result = ParseErrorResult(task)
           \/ HasEmbeddedObject(response.response) /\ result = response.response.body

\* the whole response, white space aside, is no JSON text
CannotBeDecoded(r) == r.wrap = "prose" \/ r.body.t \in NotJson

\* C17: for a response that cannot be decoded as JSON, verify_state returns
\* the failed verification marked "parsing_error" and get_navigation_plan
\* the error plan with no actions; neither raises, and one inference call
\* was made
C17_SafeDefaultOnUndecodable ==
    /\ InCodec => inference_calls <= 1
    /\ (Decoded /\ CannotBeDecoded(response.response)) =>
          /\ ~raised
          /\ inference_calls = 1
          /\ task = "verify_state" =>
                /\ result.success = "false"
                /\ result.missing_requirements = <<"parsing_error">>
          /\ task = "get_navigation_plan" =>
                /\ result.status = "error"
                /\ result.actions_t = "list"
                /\ result.actions = <<>>

C17_Witness ==
    /\ Decoded
    /\ task = "get_navigation_plan"
    /\ response.response.wrap = "prose"
    /\ HasEmbeddedObject(response.response)
    /\ result = InvalidPlan

(***************************************************************************)
(* Properties of the page snapshot and of the readiness wait               *)
(***************************************************************************)
PageContentReturned == task = "get_page_content" /\ pc = "done"

\* the call came to its sub-extractions: the wait did not raise, url and
\* title were read
ReachedExtractions ==
    /\ page # "None"
    /\ ~load_result.raised
    /\ extract_outcomes["title"] = "ok"

\* C18: a failed sub-extraction empties its own field only; the snapshot
\* has its five fields, the url and title that were read, and the results
\* of the other sub-extractions
C18_FailedExtractionEmptiesOwnField ==
    (PageContentReturned /\ ReachedExtractions) =>
        /\ ~content.raised
        /\ DOMAIN content.content = {"url", "title", "text", "html", "elements"}
        /\ content.content.url = PageUrl
        /\ content.content.title = PageTitle
        /\ content.content.text =
              (IF extract_outcomes["text"] = "ok" THEN PageText ELSE "")
        /\ content.content.html =
              (IF extract_outcomes["html"] = "ok" THEN PageHtml ELSE "")
        /\ content.content.elements =
              (IF extract_outcomes["elements"] = "ok" THEN PageElements ELSE <<>>)

C18_Witness ==
    /\ PageContentReturned
    /\ ReachedExtractions
    /\ extract_outcomes["text"] = "error"
    /\ extract_outcomes["html"] = "ok"
    /\ extract_outcomes["elements"] = "timeout"
    /\ content.content = Snapshot(PageUrl, PageTitle, "", PageHtml, <<>>)

\* C19 as stated: when the url or the title cannot be read, or the wait
\* fails with an error that is no timeout, get_page_content does not raise
\* and returns a snapshot of empty strings and empty sequences (the url of a
\* page object that still has one may be kept)
C19_PageContentTotal ==
    (PageContentReturned /\ ~ReachedExtractions) =>
        /\ ~raised
        /\ ~content.raised
        /\ content.content.url \in {"", PageUrl}
        /\ content.content.title = ""
        /\ content.content.text = ""
        /\ content.content.html = ""
        /\ content.content.elements = <<>>

\* the stage whose wait did not succeed, 0 when every wait did
BadStage == FirstBad(load_outcomes)

\* C20: the stages of wait_for_page_load run in the order network idle,
\* DOM content loaded, readiness predicate, settle delay, and a timeout of a
\* stage ends the call without an exception
C20_StagesInOrderTimeoutNotFatal ==
    (task = "wait_for_page_load" /\ pc = "done") =>
        /\ load_result.stages = SubSeq(Stages, 1, Len(load_result.stages))
        /\ load_result.slept => load_result.stages = Stages
        /\ BadStage = 0 => (load_result.slept /\ ~raised)
        /\ (BadStage # 0 /\ load_outcomes[BadStage] = "timeout") => ~raised

C20_Witness ==
    /\ task = "wait_for_page_load"
    /\ pc = "done"
    /\ load_outcomes = <<"ok", "timeout", "ok">>
    /\ load_result.stages = <<"networkidle", "domcontentloaded">>
    /\ ~raised

(***************************************************************************)
(* Properties of execute_action                                            *)
(***************************************************************************)
\* C10: when every visibility wait of a call on an action with a selector
\* timed out, the call made exactly 3 such waits, performed no primitive of
\* the action and returns false
C10_ThreeVisibilityWaits ==
    (epc = "e_ret" /\ HasSelector(action) /\ vis_timeouts = vis_waits) =>
        /\ vis_waits = 3
        /\ dispatched = <<>>
        /\ eresult = FALSE

C10_Witness ==
    /\ epc = "e_ret"
    /\ HasSelector(action)
    /\ vis_timeouts = 3
    /\ vis_waits = 3
    /\ eresult = FALSE

\* no sequence of primitive outcomes lets the action's dispatch complete
ExecCannotSucceed(a) ==
    \/ a.t # "obj"
    \/ \E j \in 1..Len(DispatchPrims(a)) : MustFail(DispatchPrims(a)[j], a)

\* C11: execute_action never ends by raising: whatever the action and
\* whatever fails, the call is at one of its own steps or has returned a
\* boolean, and that boolean is false when the action could not be performed
C11_ExecuteActionNeverRaises ==
    /\ epc \in {"e_idle", "e_while", "e_selwait", "e_dispatch", "e_pause",
                "e_load", "e_backoff", "e_ret"}
    /\ epc = "e_ret" => eresult \in BOOLEAN
    /\ (epc = "e_ret" /\ ExecCannotSucceed(action)) => eresult = FALSE

C11_Witness ==
    /\ pc = "done"
    /\ epc = "e_ret"
    /\ action = WaitNull
    /\ retry_count = 0
    /\ eresult = FALSE

\* C12 as stated: a visibility wait that times out increments the retry
\* count and is followed by the 1-second sleep before the next attempt
C12_SleepAfterVisibilityTimeout ==
    [][(epc = "e_selwait" /\ vis_timeouts' = vis_timeouts + 1) =>
          (retry_count' = retry_count + 1 /\ epc' = "e_backoff")]_vars

(***************************************************************************)
(* Properties of the history of one execute_action call                    *)
(***************************************************************************)
ExecReturned == epc = "e_ret"

ExceptionsRaised == {"PlaywrightTimeout", "Exception"}

\* the performing calls of a dispatch of the action that completes
MainCalls(a) ==
    LET main == SelectSeq(DispatchPrims(a), IsMain)
    IN  [j \in 1..Len(main) |-> PerformedCall(a, main[j])]

\* the part of the history after the last exception in it
SinceLastException(log) ==
    LET ks == {k \in 1..Len(log) : log[k] \in ExceptionsRaised}
    IN  IF ks = {} THEN log
        ELSE SubSeq(log, (CHOOSE k \in ks : \A j \in ks : j <= k) + 1, Len(log))

\* the history without the exception the readiness wait raised at its end
WithoutWaitFailure(log) ==
    IF /\ Len(log) >= 2
       /\ log[Len(log)] = "Exception"
       /\ log[Len(log) - 1] = "wait_for_page_load"
    THEN SubSeq(log, 1, Len(log) - 1) ELSE log

IsPrefix(a, b) == Len(a) <= Len(b) /\ SubSeq(b, 1, Len(a)) = a

\* the last attempt of the call
LastAttempt == SinceLastException(WithoutWaitFailure(dispatched))

C28_TrueOnlyAfterReadinessWait ==
    (ExecReturned /\ eresult) =>
        /\ action.t = "obj"
        /\ Len(dispatched) >= 2
        /\ dispatched[Len(dispatched)] = "wait_for_page_load"
        /\ dispatched[Len(dispatched) - 1] = SleepCall("0.5")
        /\ SinceLastException(dispatched) =
              MainCalls(action) \o <<SleepCall("0.5"), "wait_for_page_load">>

\* true after one timed-out attempt and a second, complete one
C28_Witness ==
    /\ ExecReturned
    /\ eresult
    /\ action = ClickApply
    /\ dispatched = <<"PlaywrightTimeout", "click", SleepCall("0.5"), "wait_for_page_load">>

\* exceptions of dispatches in the history: those not raised by the final
\* wait_for_page_load
DispatchFailures(kind) ==
    LET log == WithoutWaitFailure(dispatched)
    IN  Cardinality({k \in 1..Len(log) : log[k] = kind})

DispatchedKinds == {"click", "fill", "select", "navigate"}

\* C29 as stated: a dispatch that fails, with a timeout or with another
\* error, is followed by a retry unless it was the third attempt
C29_Original ==
    (ExecReturned /\ action.type \in DispatchedKinds /\ ~eresult
        /\ DispatchFailures("PlaywrightTimeout") + DispatchFailures("Exception") > 0
        /\ dispatched[Len(dispatched)] \in ExceptionsRaised
        /\ WithoutWaitFailure(dispatched) = dispatched) =>
            retry_count = max_retries

\* C29 amended: a dispatch that fails with a timeout counts as an attempt
\* and the action is tried again, until three attempts timed out and the
\* call returns false; a dispatch that fails with any other error ends the
\* call at once with false, whatever attempts are left
C29_TimeoutRetriedOtherErrorEndsCall ==
    /\ [](retry_count \in 0..max_retries)
    /\ [](DispatchFailures("PlaywrightTimeout") + vis_timeouts = retry_count)
    /\ [](DispatchFailures("Exception") > 0 =>
             /\ ExecReturned /\ ~eresult
             /\ DispatchFailures("Exception") = 1
             /\ dispatched[Len(dispatched)] = "Exception")
    /\ [][(epc = "e_dispatch" /\ Len(dispatched') > Len(dispatched)
              /\ dispatched'[Len(dispatched')] = "PlaywrightTimeout") =>
                 (epc' = "e_backoff" /\ action' = action)]_vars
    /\ [][(epc = "e_backoff" /\ epc' # epc) =>
                 (epc' = "e_while" /\ action' = action)]_vars
    /\ [][(epc = "e_while" /\ epc' # epc /\ action.t = "obj") =>
                 IF retry_count < max_retries
                 THEN epc' \in {"e_selwait", "e_dispatch"} /\ action' = action
                 ELSE epc' = "e_ret" /\ ~eresult']_vars

\* three dispatches of the click timed out and the call returned false
C29_Witness ==
    /\ ExecReturned
    /\ ~eresult
    /\ action = ClickApply
    /\ retry_count = max_retries
    /\ vis_timeouts = 0
    /\ dispatched = <<"PlaywrightTimeout", "PlaywrightTimeout", "PlaywrightTimeout">>

\* the value is text that writes a non-negative integer
ValidSeconds(a) ==
    /\ a.value_t = "str"
    /\ a.value # <<>>
    /\ \A i \in 1..Len(a.value) : a.value[i] \in AsciiDigits

\* C30 as stated: for the kind wait, execute_action sleeps the seconds the
\* value gives when it is a valid non-negative integer and 1 second for
\* every other value, and then returns true (unless the readiness wait that
\* follows raises)
C30_WaitSleepsValueOrOneSecond ==
    (ExecReturned /\ action.t = "obj" /\ action.type = "wait"
                  /\ ~HasSelector(action)) =>
        /\ Len(dispatched) >= 1
        /\ dispatched[1] =
              SleepCall(ToString(IF ValidSeconds(action) THEN int(action.value) ELSE 1))
        /\ \/ eresult
           \/ /\ dispatched[Len(dispatched)] = "Exception"
              /\ dispatched # WithoutWaitFailure(dispatched)

\* the kinds of action the executor knows
ActionKinds == {"click", "fill", "select", "navigate", "wait"}

\* C31 as stated: execute_action returns true only for an action of a known
\* kind whose browser operation was performed in the attempt that returned;
\* an action with a missing or unrecognised kind never yields true
C31_TrueOnlyForKnownKind ==
    (ExecReturned /\ eresult) =>
        /\ action.type \in ActionKinds
        /\ MainCalls(action) # <<>>
        /\ IsPrefix(MainCalls(action), SinceLastException(dispatched))

\* the calls that change the page: click, fill, key press, option
\* selection, navigation
EffectCalls == {"click", "fill", "press", "select_option", "goto"}

\* how many times the call took effect in the history
TimesDone(call) == Cardinality({k \in 1..Len(dispatched) : dispatched[k] = call})

\* C32 as stated: when execute_action returns false no page-changing
\* primitive of the action has taken effect, and when it returns true none
\* has taken effect more than once
C32_FalseLeavesPageUnchanged ==
    ExecReturned =>
        \A call \in EffectCalls :
            TimesDone(call) <= (IF eresult THEN 1 ELSE 0)

(***************************************************************************)
(* Further properties of the readiness wait and of navigate_with_ai        *)
(***************************************************************************)
AllStagesOk == [i \in 1..3 |-> "ok"]

AllExtractionsOk == [x \in Extractions |-> "ok"]

\* the snapshot get_page_content gives of a settled page
SettledSnapshot(pg) == get_page_content(pg, AllStagesOk, AllExtractionsOk)

WaitReturned == task = "wait_for_page_load" /\ pc = "done"

C26_MissingPageRaises ==
    (NavDone /\ page = "None" /\ ai_navigator = "ready") => raised

\* C27 as stated: a result with status "error" carries a message that is
\* not empty
C27_ErrorResultHasMessage ==
    (pc = "done" /\ ~raised /\ (InNavigate \/ InForm) /\ IsDict(result)
                 /\ result.status = "error") =>
        result.message \notin {Absent, ""}

(***************************************************************************)
(* Properties of batches and of their job tasks                            *)
(***************************************************************************)
TaskOps == {op \in page_ops : op.by \in Tasks}

TaskActive(t) == tpc[t] \notin {"t_none", "t_new", "t_done"}

\* C23: every browser operation of a job task is made on the page the task
\* opened with new_page(), which is not the default page and is no other
\* task's page
C23_TaskActsOnOwnPage ==
    /\ \A op \in TaskOps :
          /\ op.on = tpage[op.by]
          /\ op.on # DefaultPage
          /\ \A t \in Tasks \ {op.by} : tpage[t] # op.on
    /\ \A t \in Tasks : TaskActive(t) => tpage[t] \notin {NoNum, DefaultPage}

\* two tasks of one batch and one of another at work at once, each having
\* acted on a page
C23_Witness ==
    /\ tpc[<<"r1", "j1">>] = "t_fill"
    /\ tpc[<<"r1", "j2">>] = "t_close"
    /\ tpc[<<"r2", "j1">>] = "t_fill"
    /\ \A t \in {<<"r1", "j1">>, <<"r1", "j2">>, <<"r2", "j1">>} :
          \E op \in TaskOps : op.by = t
    /\ \E op \in page_ops : op.on = DefaultPage

\* the request has acted on the default page and its next step acts on it
\* again
InPageSequence(r) == rpc[r] \in {"r_results", "r_verify", "r_jobs"}

\* C24 as stated: no two requests are at the same time in the middle of
\* their calls on the default page
C24_OneFlowOnDefaultPage ==
    \A r1, r2 \in Requests :
        (r1 # r2) => ~(InPageSequence(r1) /\ InPageSequence(r2))

\* the step is a cancellation of batch p taking effect
Cancels(p) ==
    /\ active_applications[p].status # "cancelled"
    /\ active_applications'[p].status = "cancelled"

\* C25: a cancellation writes status "cancelled" and an end time to the
\* tracking record of that batch, where get_batch_status reads it, and
\* changes nothing else: no position, page or result of a request or of a
\* job task, and no other record
C25_CancelIsRecordedOnly ==
    /\ [][\A p \in ProcessIds : Cancels(p) =>
             /\ active_applications'[p] =
                   [active_applications[p] EXCEPT !.status = "cancelled",
                                                  !.ended = TRUE]
             /\ \A q \in ProcessIds \ {p} :
                   active_applications'[q] = active_applications[q]
             /\ UNCHANGED <<rpc, rid, relevant_jobs, tpc, tpage, tresult,
                            open_pages, page_ops>>]_vars
    /\ [](\A p \in ProcessIds :
             active_applications[p].status = "cancelled" =>
                 /\ get_batch_status(p).status = "in_progress"
                 /\ get_batch_status(p).details.status = "cancelled"
                 /\ get_batch_status(p).details.ended)

\* a batch cancelled in the middle of its search on the default page
C25_Witness ==
    /\ rpc["r1"] = "r_results"
    /\ rid["r1"] # NoNum
    /\ active_applications[rid["r1"]].status = "cancelled"
    /\ get_batch_status(rid["r1"]).details.status = "cancelled"

\* the task has finished: its coroutine returned or raised
TaskFinished(t) == tpc[t] = "t_done"

BatchReturned(r) == rpc[r] \in {"r_returned_success", "r_returned_error"}

\* C33: a task that has finished has closed the page it opened, whatever its
\* result, the only pages open are those of tasks still at work, and when
\* the batch has returned none of its tasks is at work: no page of a job of
\* the batch is open
C33_TaskPageClosed ==
    /\ \A t \in Tasks :
          (TaskFinished(t) /\ tpage[t] # NoNum) => tpage[t] \notin open_pages
    /\ \A pg \in open_pages :
          \E t \in Tasks : tpage[t] = pg /\ tpc[t] \in {"t_goto", "t_fill", "t_close"}
    /\ \A r \in Requests :
          BatchReturned(r) =>
              \A j \in Jobs : tpc[<<r, j>>] \in {"t_none", "t_done"}
                              /\ NewPage(<<r, j>>) \notin open_pages

\* a batch returned after one task succeeded and one failed on its posting,
\* both having opened a page, and no page is left open
C33_Witness ==
    /\ rpc["r1"] = "r_returned_success"
    /\ tresult[<<"r1", "j1">>] = "success"
    /\ tresult[<<"r1", "j2">>] = "error"
    /\ tpage[<<"r1", "j1">>] = NewPage(<<"r1", "j1">>)
    /\ tpage[<<"r1", "j2">>] = NewPage(<<"r1", "j2">>)
    /\ [by |-> <<"r1", "j2">>, on |-> NewPage(<<"r1", "j2">>)] \in page_ops
    /\ open_pages = {}

\* the status of the record of process id p
StatusOf(p) == active_applications[p].status

\* C34 as stated: the status of a tracking record only moves from
\* "initiated" to "completed" or "cancelled" and never changes after that,
\* and a cancellation of a completed batch changes nothing
C34_StatusOnlyMovesForward ==
    [][\A p \in ProcessIds :
          StatusOf(p)' # StatusOf(p) =>
              \/ StatusOf(p) = Absent /\ StatusOf(p)' = "initiated"
              \/ StatusOf(p) = "initiated"
                    /\ StatusOf(p)' \in {"completed", "cancelled"}]_vars

\* C35 as stated: when process_job_applications has returned, with success
\* or with an error result, the record it created has status "completed" or
\* "cancelled" and carries an end time
C35_ReturnedBatchHasFinalStatus ==
    \A r \in Requests :
        BatchReturned(r) =>
            /\ StatusOf(rid[r]) \in {"completed", "cancelled"}
            /\ active_applications[rid[r]].ended

\* the request is being processed: its record was made and the call has
\* not returned
InProcess(r) == rid[r] # NoNum /\ ~BatchReturned(r)

\* C36 as stated: two batches processed at the same time have distinct
\* process ids, hence distinct tracking records
C36_DistinctProcessIds ==
    \A r1, r2 \in Requests :
        (r1 # r2 /\ InProcess(r1) /\ InProcess(r2)) => rid[r1] # rid[r2]

====
